---- MODULE Spec2Model ----
(***************************************************************************)
(* A model of pacquet's content-addressed store, registry client (cache    *)
(* and retry policy), mock-registry readiness wait, tarball cache and      *)
(* virtual-store builder.                                                  *)
(*                                                                         *)
(* Strings whose characters matter (hex digests, CAS paths) are sequences  *)
(* of one-character strings.  Every subsystem has a specification of its   *)
(* own over the shared variables; the variables of the other subsystems    *)
(* stay at their idle values.                                              *)
(***************************************************************************)
EXTENDS Naturals, Sequences, FiniteSets, TLC

VARIABLES
    pathArgs,   \* content_path_from_hex: the arguments (file_type, hex)
    pathRes,    \* content_path_from_hex: the value returned, or NoResult
    fnCall,     \* a conversion of the lockfile layer: which one, and its input
    fnRet,      \* the values the conversion has produced so far
    store,      \* CAS files on disk: path (string) -> bytes written so far
    storeDirs,  \* CAS directories on disk
    wr,         \* write_sync callers: position, buffer, file offset, result
    regCache,   \* HttpClient.cache: name -> the boxed Package document
    regGets,    \* HTTP GETs sent to <registry>/<name>, per name
    rc,         \* get_package callers: position, name, result, served from cache
    regHanded,  \* the (name, document) references get_package has returned
    disk,       \* virtual store and modules directory: path -> dir, file or link
    tcache,     \* tarball Cache of the running process: integrity -> slot
    fetched,    \* tarball downloads started, per integrity, in the running process
    net,        \* what the registry serves for each tarball
    job,        \* what each task of an install installs
    task,       \* install tasks: position, per-file position, links made
    run,        \* the number of the install that is running
    lastOk,     \* the disk an install that just completed without error left
    interrupted, \* packages whose own directory a killed install left partial
    rq,         \* get_package_by_version callers under the retry middleware
    wt          \* wait_for_registry of the mock registry: position and counters

casVars == <<store, storeDirs, wr>>
pathVars == <<pathArgs, pathRes, fnCall, fnRet>>
regVars == <<regCache, regGets, rc, regHanded>>
instVars == <<disk, tcache, fetched, net, job, task, run, lastOk, interrupted>>
httpVars == <<rq, wt>>
vars == <<pathArgs, pathRes, fnCall, fnRet, store, storeDirs, wr, regCache, regGets, rc, regHanded,
          disk, tcache, fetched, net, job, task, run, lastOk, interrupted, rq, wt>>

----------------------------------------------------------------------------
(* Bounds *)

\* longest hex string handed to content_path_from_hex
MaxHexLen == 3
\* longest buffer handed to write_sync
MaxBufLen == 2
\* concurrent callers of write_sync
NumWriters == 2
\* concurrent callers of get_package
NumRegCalls == 2
\* get_package calls that miss the cache and send a request
MaxGets == 2
\* concurrent tasks of one install
NumTasks == 2
\* installs run one after the other on the same directories
MaxRuns == 2
\* most peers in the suffix of an identity
MaxPeers == 2
\* largest max_retries wait_for_registry is called with
MaxWaitRetries == 5

----------------------------------------------------------------------------
(* Strings and std::path::PathBuf *)

NoResult == <<"<none>">>
Panic == <<"<panic>">>

HexAlphabet == {"0", "a", "f"}

RECURSIVE SeqsUpTo(_, _)
SeqsUpTo(S, n) ==
    IF n = 0 THEN {<<>>}
    ELSE LET shorter == SeqsUpTo(S, n - 1)
         IN  shorter \cup {Append(s, x) : s \in {t \in shorter : Len(t) = n - 1}, x \in S}

\* &s[a..b] with 0-based, half-open byte indices
Slice(s, a, b) == SubSeq(s, a + 1, b)

\* &s[a..]
SliceFrom(s, a) == SubSeq(s, a + 1, Len(s))

\* PathBuf::push: an absolute argument replaces the path, otherwise a
\* separator is added unless the path is empty or already ends with one.
PathPush(p, s) ==
    IF s # <<>> /\ s[1] = "/" THEN s
    ELSE IF p = <<>> \/ p[Len(p)] = "/" THEN p \o s
    ELSE p \o <<"/">> \o s

\* Path::join
PathJoin(p, s) == PathPush(p, s)

\* Path::parent of a path with at least one separator inside it
RECURSIVE PathParent(_)
PathParent(p) ==
    IF p = <<>> THEN <<>>
    ELSE IF p[Len(p)] = "/" THEN (IF Len(p) = 1 THEN p ELSE SubSeq(p, 1, Len(p) - 1))
    ELSE PathParent(SubSeq(p, 1, Len(p) - 1))

----------------------------------------------------------------------------
(* crates/cafs: content_path_from_hex *)

FileTypes == {"Exec", "NonExec", "Index"}

MutExtension(file_type) ==
    CASE file_type = "Exec" -> <<>>
      [] file_type = "NonExec" -> <<"-", "e", "x", "e", "c">>
      [] file_type = "Index" -> <<"-", "i", "n", "d", "e", "x", ".", "j", "s", "o", "n">>

Extension(file_type) ==
    CASE file_type = "Exec" -> <<"-", "e", "x", "e", "c">>
      [] file_type = "NonExec" -> <<>>
      [] file_type = "Index" -> <<"-", "i", "n", "d", "e", "x", ".", "j", "s", "o", "n">>

\* Slicing a string shorter than two bytes panics.
content_path_from_hex(file_type, hex) ==
    IF Len(hex) < 2 THEN Panic
    ELSE LET p == PathPush(<<>>, Slice(hex, 0, 2))
         IN  PathJoin(p, SliceFrom(hex, 2) \o Extension(file_type))

NoCall == [fn |-> "none"]

PathIdle ==
    /\ pathArgs = [file_type |-> "NonExec", hex |-> <<>>]
    /\ pathRes = NoResult
    /\ fnCall = NoCall
    /\ fnRet = <<>>

ComputeContentPath ==
    /\ pathRes = NoResult
    /\ pathRes' = content_path_from_hex(pathArgs.file_type, pathArgs.hex)
    /\ UNCHANGED <<pathArgs, fnCall, fnRet, casVars, regVars, instVars, httpVars>>

----------------------------------------------------------------------------
(* crates/cafs: write_sync *)

Writers == 1 .. NumWriters

\* Byte values of the buffers; 0 is the byte a hole reads as.
Bytes == {1}

Buffers == SeqsUpTo(Bytes, MaxBufLen)

HexDigit(n) == CASE n = 0 -> "0" [] n = 1 -> "1" [] n = 2 -> "2" [] n = 3 -> "3"
                 [] n = 4 -> "4" [] n = 5 -> "5" [] n = 6 -> "6" [] n = 7 -> "7"
                 [] n = 8 -> "8" [] n = 9 -> "9" [] OTHER -> "a"

\* The SHA-512 hex digest, modelled as a collision-free function of the
\* buffer: its length, then its bytes, padded to a fixed width.
HexIntegrity(buffer) ==
    <<HexDigit(Len(buffer))>> \o
    [i \in 1 .. MaxBufLen + 1 |-> IF i <= Len(buffer) THEN HexDigit(buffer[i]) ELSE "0"]

StoreDir == <<"/", "s">>

\* store_dir.join(content_path_from_hex(FileType::NonExec, &hex_integrity))
CasFilePath(buffer) ==
    PathJoin(StoreDir, content_path_from_hex("NonExec", HexIntegrity(buffer)))

\* Path::exists
StoreExists(p) == p \in DOMAIN store \/ p \in storeDirs

RECURSIVE Ancestors(_)
Ancestors(p) ==
    IF Len(p) <= 1 THEN {p}
    ELSE {p} \cup Ancestors(PathParent(p))

\* fs::create_dir_all: an existing directory is not an error.
CreateDirAll(dirs, p) == dirs \cup Ancestors(p)

\* A write of `chunk` at byte offset `off` of a file; a gap reads as zeros.
WriteAt(data, off, chunk) ==
    LET n == IF Len(data) > off + Len(chunk) THEN Len(data) ELSE off + Len(chunk)
    IN  [i \in 1 .. n |->
            IF i > off /\ i <= off + Len(chunk) THEN chunk[i - off]
            ELSE IF i <= Len(data) THEN data[i]
            ELSE 0]

IdleWriter == [pc |-> "idle", buffer |-> <<>>, path |-> <<>>, off |-> 0, ret |-> NoResult]

CasIdle ==
    /\ store = <<>>
    /\ storeDirs = {StoreDir}
    /\ wr = [w \in Writers |-> IdleWriter]

MutSkipWrite(found) == FALSE

\* `if !file_path.exists()`: whether the write is skipped
SkipWrite(found) == found

\* write_sync up to `if !file_path.exists()`
WsCall(w, buffer) ==
    /\ wr[w].pc = "idle"
    /\ LET file_path == CasFilePath(buffer)
       IN  IF SkipWrite(StoreExists(file_path))
           THEN wr' = [wr EXCEPT ![w] = [pc |-> "done", buffer |-> buffer, path |-> file_path,
                                         off |-> 0, ret |-> file_path]]
           ELSE wr' = [wr EXCEPT ![w] = [pc |-> "mkdir", buffer |-> buffer, path |-> file_path,
                                         off |-> 0, ret |-> NoResult]]
    /\ UNCHANGED <<store, storeDirs, pathVars, regVars, instVars, httpVars>>

\* fs::create_dir_all(parent_dir)?
WsCreateDirAll(w) ==
    /\ wr[w].pc = "mkdir"
    /\ storeDirs' = CreateDirAll(storeDirs, PathParent(wr[w].path))
    /\ wr' = [wr EXCEPT ![w].pc = "create"]
    /\ UNCHANGED <<store, pathVars, regVars, instVars, httpVars>>

\* fs::write, first half: File::create opens the path, creating it or
\* truncating what is there.  An empty buffer needs no write.
WsCreate(w) ==
    /\ wr[w].pc = "create"
    /\ store' = (wr[w].path :> <<>>) @@ store
    /\ wr' = [wr EXCEPT ![w].pc = IF wr[w].buffer = <<>> THEN "done" ELSE "write",
                        ![w].ret = IF wr[w].buffer = <<>> THEN wr[w].path ELSE NoResult]
    /\ UNCHANGED <<storeDirs, pathVars, regVars, instVars, httpVars>>

\* fs::write, second half: write_all writes the rest of the buffer in one
\* or more write calls at the descriptor's own offset, then write_sync
\* returns Ok(file_path).
WsWrite(w) ==
    /\ wr[w].pc = "write"
    /\ \E k \in 1 .. (Len(wr[w].buffer) - wr[w].off) :
          LET chunk == SubSeq(wr[w].buffer, wr[w].off + 1, wr[w].off + k)
              finished == wr[w].off + k = Len(wr[w].buffer)
          IN  /\ store' = [store EXCEPT ![wr[w].path] = WriteAt(@, wr[w].off, chunk)]
              /\ wr' = [wr EXCEPT ![w].off = @ + k,
                                  ![w].pc = IF finished THEN "done" ELSE "write",
                                  ![w].ret = IF finished THEN wr[w].path ELSE NoResult]
    /\ UNCHANGED <<storeDirs, pathVars, regVars, instVars, httpVars>>

\* The caller takes the value returned and may call again.
WsReturn(w) ==
    /\ wr[w].pc = "done"
    /\ wr' = [wr EXCEPT ![w] = IdleWriter]
    /\ UNCHANGED <<store, storeDirs, pathVars, regVars, instVars, httpVars>>

\* The process of a writer is killed in the middle of write_sync.
WsKill(w) ==
    /\ wr[w].pc \in {"mkdir", "create", "write"}
    /\ wr' = [wr EXCEPT ![w].pc = "killed"]
    /\ UNCHANGED <<store, storeDirs, pathVars, regVars, instVars, httpVars>>

----------------------------------------------------------------------------
(* crates/registry: HttpClient::get_package *)

RegCalls == 1 .. NumRegCalls

PackageNames == {"fast-querystring", "fastify"}

\* The metadata documents the registry may answer with; the document of a
\* name can change between two requests.
Documents == {"doc1", "doc2"}

RegError == "RegistryError"

IdleCall == [pc |-> "idle", name |-> "", ret |-> "", hit |-> FALSE,
             retries |-> 0, last |-> ""]

\* No get_package_by_version under way, wait_for_registry not called
IdleRequest == [pc |-> "idle", retries |-> 0, last |-> "", ret |-> ""]

IdleWait == [pc |-> "idle", max_retries |-> 0, retry_delay |-> 0, retries |-> 0,
             checks |-> 0, slept |-> 0, msg |-> ""]

RegIdle ==
    /\ regCache = <<>>
    /\ regGets = [n \in PackageNames |-> 0]
    /\ rc = [c \in RegCalls |-> IdleCall]
    /\ regHanded = {}
    /\ rq = [c \in RegCalls |-> IdleRequest]
    /\ wt = IdleWait

\* HttpClient::new: every request of the client goes through the retry
\* middleware.
\* ExponentialBackoff::builder().build_with_max_retries(3)
MaxRetries == 3

\* What one attempt of a request ends with: the status of the response, or
\* the kind of the error reqwest reports
Statuses == {"200", "404", "408", "429", "500"}

RequestErrors == {"connect", "builder"}

Outcomes == Statuses \cup RequestErrors

ClientErrors == {"404", "408", "429"}

\* RetryTransientMiddleware::new_with_policy: how the middleware classifies
\* the end of an attempt.  Server errors, 408, 429 and connection failures
\* are transient; the other client errors and request errors are fatal.
Retryable(outcome) ==
    CASE outcome = "200" -> "None"
      [] outcome \in {"500", "408", "429", "connect"} -> "Transient"
      [] OTHER -> "Fatal"

\* The policy's answer after n_past_retries retries
ShouldRetry(n_past_retries) == n_past_retries < MaxRetries

RECURSIVE SumGets(_)
SumGets(names) ==
    IF names = {} THEN 0
    ELSE LET n == CHOOSE x \in names : TRUE IN regGets[n] + SumGets(names \ {n})

\* GETs sent so far, to any name, retries included
GetsSent == SumGets(PackageNames)

\* self.cache.get(name) is Some
CacheGet(cache, name) == name \in DOMAIN cache

MutFrozenMapInsert(cache, name, package) == (name :> package) @@ cache

\* elsa::FrozenMap::insert: an entry that is present is kept, the new
\* value dropped.
FrozenMapInsert(cache, name, package) ==
    IF name \in DOMAIN cache THEN cache ELSE (name :> package) @@ cache

MutCacheOnError(cache, name) == (name :> RegError) @@ cache

\* `?` on the result of send() or json(): get_package returns before
\* self.cache.insert, the cache stays as it was.
CacheOnError(cache, name) == cache

\* get_package up to `.send()`: a cached document is returned at once,
\* otherwise the request enters the middleware and the first GET is sent.
GetPackageCall(c, name) ==
    /\ rc[c].pc = "idle"
    /\ IF CacheGet(regCache, name)
       THEN /\ rc' = [rc EXCEPT ![c] = [IdleCall EXCEPT !.pc = "done", !.name = name,
                                                        !.ret = regCache[name],
                                                        !.hit = TRUE]]
            /\ regHanded' = regHanded \cup {<<name, regCache[name]>>}
            /\ UNCHANGED regGets
       ELSE /\ GetsSent < MaxGets
            /\ regGets' = [regGets EXCEPT ![name] = @ + 1]
            /\ rc' = [rc EXCEPT ![c] = [IdleCall EXCEPT !.pc = "sending", !.name = name]]
            /\ UNCHANGED regHanded
    /\ UNCHANGED <<regCache, pathVars, casVars, instVars, httpVars>>

\* One attempt inside `.send().await?`: a transient end that the policy
\* lets retry is followed by a backoff; any other end is handed back, a
\* response to `.json()`, a request error to the caller, and the
\* middleware's count of retries is gone with the request.
GetPackageAttempt(c) ==
    /\ rc[c].pc = "sending"
    /\ \E outcome \in Outcomes :
          IF Retryable(outcome) = "Transient" /\ ShouldRetry(rc[c].retries)
          THEN /\ rc' = [rc EXCEPT ![c].pc = "backoff"]
               /\ UNCHANGED regCache
          ELSE IF outcome \in RequestErrors
          THEN /\ rc' = [rc EXCEPT ![c].pc = "done", ![c].ret = RegError,
                                   ![c].retries = 0]
               /\ regCache' = CacheOnError(regCache, rc[c].name)
          ELSE /\ rc' = [rc EXCEPT ![c].pc = "body", ![c].last = outcome,
                                   ![c].retries = 0]
               /\ UNCHANGED regCache
    /\ UNCHANGED <<regGets, regHanded, pathVars, casVars, instVars, httpVars>>

\* The backoff has been slept; the GET is sent again.
GetPackageBackoff(c) ==
    /\ rc[c].pc = "backoff"
    /\ rc' = [rc EXCEPT ![c].pc = "sending", ![c].retries = @ + 1]
    /\ regGets' = [regGets EXCEPT ![rc[c].name] = @ + 1]
    /\ UNCHANGED <<regCache, regHanded, pathVars, casVars, instVars, httpVars>>

\* `.json::<Package>().await?`, then self.cache.insert and Ok(package): the
\* response is decoded whatever its status, and only the body of a 200 can
\* be a package.
GetPackageJson(c) ==
    /\ rc[c].pc = "body"
    /\ \/ /\ rc[c].last = "200"
          /\ \E package \in Documents :
                LET cache == FrozenMapInsert(regCache, rc[c].name, package)
                IN  /\ regCache' = cache
                    /\ rc' = [rc EXCEPT ![c].pc = "done", ![c].ret = cache[rc[c].name],
                                        ![c].last = ""]
                    /\ regHanded' = regHanded \cup {<<rc[c].name, cache[rc[c].name]>>}
       \/ /\ rc' = [rc EXCEPT ![c].pc = "done", ![c].ret = RegError, ![c].last = ""]
          /\ regCache' = CacheOnError(regCache, rc[c].name)
          /\ UNCHANGED regHanded
    /\ UNCHANGED <<regGets, pathVars, casVars, instVars, httpVars>>

\* The caller takes the result and may call again.
GetPackageReturn(c) ==
    /\ rc[c].pc = "done"
    /\ rc' = [rc EXCEPT ![c] = IdleCall]
    /\ UNCHANGED <<regCache, regGets, regHanded, pathVars, casVars, instVars, httpVars>>

----------------------------------------------------------------------------
(* The inputs of an install: packages, tarballs, lockfile *)

\* Package identities: name and version-with-peers suffix
PkgA == [name |-> "a", suffix |-> "1.0.0"]
PkgB == [name |-> "@s/b", suffix |-> "1.0.0"]
\* a package the lockfile names as a dependency only
PkgC == [name |-> "c", suffix |-> "1.0.0"]
\* nodes whose resolution the installer does not take
PkgD == [name |-> "d", suffix |-> "1.0.0"]
PkgG == [name |-> "g", suffix |-> "1.0.0"]
PkgT == [name |-> "t", suffix |-> "1.0.0"]
\* nodes of lockfiles whose every dependency is a node: f and h depend on
\* each other and f on itself; k depends on e under another name
PkgE == [name |-> "e", suffix |-> "1.0.0"]
PkgF == [name |-> "f", suffix |-> "1.0.0"]
PkgH == [name |-> "h", suffix |-> "1.0.0"]
PkgK == [name |-> "k", suffix |-> "1.0.0"]

Pkgs == {PkgA, PkgB}

Rejected == {PkgD, PkgG, PkgT}

\* Option::None of an integrity
NoIntegrity == "<none>"

\* The lockfile's snapshots: integrity of the resolution and dependencies.
\* A dependency is written as a version-with-peers (PkgVerPeer) or as a
\* full dependency path (DependencyPath).  Packages a and @s/b form a cycle,
\* and c is a dependency of @s/b only.
Snapshot(pkg) ==
    CASE pkg = PkgA ->
           [resolution |-> "registry", integrity |-> "sha512-A",
            dependencies |-> {[name |-> "@s/b", kind |-> "PkgVerPeer", target |-> PkgB]}]
      [] pkg = PkgB ->
           [resolution |-> "tarball", integrity |-> "sha512-B",
            dependencies |-> {[name |-> "a", kind |-> "DependencyPath", target |-> PkgA],
                              [name |-> "c", kind |-> "PkgVerPeer", target |-> PkgC]}]
      [] pkg = PkgD ->
           [resolution |-> "directory", integrity |-> NoIntegrity, dependencies |-> {}]
      [] pkg = PkgE ->
           [resolution |-> "registry", integrity |-> "sha512-E", dependencies |-> {}]
      [] pkg = PkgF ->
           [resolution |-> "registry", integrity |-> "sha512-F",
            dependencies |-> {[name |-> "h", kind |-> "DependencyPath", target |-> PkgH],
                              [name |-> "f", kind |-> "PkgVerPeer", target |-> PkgF]}]
      [] pkg = PkgH ->
           [resolution |-> "registry", integrity |-> "sha512-H",
            dependencies |-> {[name |-> "f", kind |-> "PkgVerPeer", target |-> PkgF]}]
      [] pkg = PkgK ->
           [resolution |-> "registry", integrity |-> "sha512-K",
            dependencies |-> {[name |-> "x", kind |-> "DependencyPath", target |-> PkgE]}]
      [] pkg = PkgG ->
           [resolution |-> "git", integrity |-> NoIntegrity, dependencies |-> {}]
      [] pkg = PkgT ->
           [resolution |-> "tarball", integrity |-> NoIntegrity, dependencies |-> {}]

Integrities == {Snapshot(pkg).integrity : pkg \in Pkgs}

\* install_single_package_to_virtual_store: the arms of `match resolution`
\* that panic: Directory, Git, and Tarball without an integrity
ResolutionPanics(resolution, integrity) ==
    \/ resolution \in {"directory", "git"}
    \/ resolution = "tarball" /\ integrity = NoIntegrity

\* The regular files of each tarball: cleaned entry name -> content
Tarball(integrity) ==
    CASE integrity = "sha512-A" -> (<<"index.js">> :> <<1>>) @@ (<<"lib", "util.js">> :> <<1, 1>>)
      [] integrity = "sha512-B" -> (<<"index.js">> :> <<1>>)
      [] integrity \in {"sha512-E", "sha512-F", "sha512-H", "sha512-K"} ->
           (<<"index.js">> :> <<1>>)
      [] OTHER -> <<>>

\* What the registry serves for a tarball URL: the tarball, a body whose
\* hash does not match, or no answer.
NetStatus == {"ok", "corrupt", "unreachable"}

\* A name as path components: `@scope/name` is two components.
NameComponents(name) == IF name = "@s/b" THEN <<"@s", "b">> ELSE <<name>>

\* to_virtual_store_name: `name@suffix` with `/` replaced by `+`
VirtualStoreName(name, suffix) ==
    CASE name = "@s/b" -> "@s+b@1.0.0"
      [] name = "a" -> "a@1.0.0"
      [] name = "c" -> "c@1.0.0"
      [] name = "d" -> "d@1.0.0"
      [] name = "e" -> "e@1.0.0"
      [] name = "f" -> "f@1.0.0"
      [] name = "h" -> "h@1.0.0"
      [] name = "k" -> "k@1.0.0"
      [] name = "g" -> "g@1.0.0"
      [] name = "t" -> "t@1.0.0"

VirtualStoreDir == <<"vs">>

\* symlink_path of the install from the registry: the project's node_modules
ModulesDir == <<"node_modules">>

\* A task installs a lockfile snapshot (install_single_package_to_virtual_store),
\* installs a package version picked from the registry (internal_fetch), or
\* is a call of ImportMethodImpl::import with the index of a tarball that is
\* in the store.
Jobs == [kind : {"lockfile", "registry", "import"}, pkg : Pkgs]

Tasks == 1 .. NumTasks

----------------------------------------------------------------------------
(* The file system under the virtual store and the modules directory *)

Dir == [k |-> "dir", data |-> <<>>, to |-> <<>>]
File(data) == [k |-> "file", data |-> data, to |-> <<>>]
Link(to) == [k |-> "link", data |-> <<>>, to |-> to]

Prefixes(p) == {SubSeq(p, 1, i) : i \in 1 .. Len(p)}

ParentOf(p) == SubSeq(p, 1, Len(p) - 1)

\* Path::exists follows symbolic links; a dangling link or a loop does not
\* exist.
RECURSIVE ExistsFollowing(_, _, _)
ExistsFollowing(d, p, fuel) ==
    /\ p \in DOMAIN d
    /\ \/ d[p].k # "link"
       \/ fuel > 0 /\ ExistsFollowing(d, d[p].to, fuel - 1)

PathExists(d, p) == ExistsFollowing(d, p, Cardinality(DOMAIN d))

\* Path::is_symlink does not follow the link.
IsSymlink(d, p) == p \in DOMAIN d /\ d[p].k = "link"

\* fs::create_dir_all: creates the missing ancestors and the directory.
DiskCreateDirAll(d, p) ==
    [q \in DOMAIN d \cup Prefixes(p) |-> IF q \in DOMAIN d THEN d[q] ELSE Dir]

\* symlink(2): fails with AlreadyExists when anything is at the link path.
SymlinkFails(d, link) == link \in DOMAIN d

SymlinkDir(d, original, link) == (link :> Link(original)) @@ d

\* File::create of fs::copy: creates the file, or truncates the one there.
DiskCreateFile(d, p) == (p :> File(<<>>)) @@ d

DiskWriteFile(d, p, data) == (p :> File(data)) @@ d

----------------------------------------------------------------------------
(* The CAS as the tarball extraction leaves it, and the tarball Cache *)

\* write_sync run on its own, from call to return
PutFile(st, buffer) ==
    IF CasFilePath(buffer) \in DOMAIN st THEN st ELSE (CasFilePath(buffer) :> buffer) @@ st

RECURSIVE PutAll(_, _)
PutAll(st, buffers) ==
    IF buffers = {} THEN st
    ELSE LET b == CHOOSE x \in buffers : TRUE
         IN  PutAll(PutFile(st, b), buffers \ {b})

RECURSIVE PutDirs(_, _)
PutDirs(dirs, buffers) ==
    IF buffers = {} THEN dirs
    ELSE LET b == CHOOSE x \in buffers : TRUE
         IN  PutDirs(CreateDirAll(dirs, PathParent(CasFilePath(b))), buffers \ {b})

Contents(integrity) == {Tarball(integrity)[f] : f \in DOMAIN Tarball(integrity)}

\* The extraction index: cleaned entry name -> CAS path of the blob
ExtractionIndex(integrity) ==
    [f \in DOMAIN Tarball(integrity) |-> CasFilePath(Tarball(integrity)[f])]

Pending == [state |-> "pending", index |-> <<>>, err |-> ""]
Ready(index) == [state |-> "ready", index |-> index, err |-> ""]
Failed(err) == [state |-> "failed", index |-> <<>>, err |-> err]

MutSlotFound(cache, integrity) == FALSE

\* whether the cache holds a slot (pending, ready or failed) for the key
SlotFound(cache, integrity) == integrity \in DOMAIN cache

----------------------------------------------------------------------------
(* Paths of a virtual-store entry *)

\* virtual_store_dir.join(to_virtual_store_name()).join("node_modules")
VirtualNodeModulesDir(pkg) ==
    VirtualStoreDir \o <<VirtualStoreName(pkg.name, pkg.suffix), "node_modules">>

\* save_path: the package's own directory
SavePath(pkg) == VirtualNodeModulesDir(pkg) \o NameComponents(pkg.name)

MutProjectLink(pkg) == ModulesDir

\* symlink_path.join(&package_version.name)
ProjectLink(pkg) == ModulesDir \o NameComponents(pkg.name)

\* The folder a dependency's link points into
DependencyStoreName(dep) ==
    IF dep.kind = "PkgVerPeer"
    THEN VirtualStoreName(dep.name, dep.target.suffix)
    ELSE VirtualStoreName(dep.target.name, dep.target.suffix)

SymlinkTarget(dep) ==
    VirtualStoreDir \o <<DependencyStoreName(dep), "node_modules">> \o NameComponents(dep.name)

MutSymlinkPath(pkg, dep) == VirtualNodeModulesDir(PkgA) \o NameComponents(dep.name)

SymlinkPath(pkg, dep) == VirtualNodeModulesDir(pkg) \o NameComponents(dep.name)

CasPaths(pkg) == ExtractionIndex(Snapshot(pkg).integrity)

----------------------------------------------------------------------------
(* Tasks *)

StartTask(pkg) ==
    [pc |-> "start",
     files |-> [f \in DOMAIN Tarball(Snapshot(pkg).integrity) |-> "todo"],
     cas_paths |-> <<>>,
     links |-> {},
     skipped |-> FALSE,
     err |-> "",
     report |-> <<>>]

\* ImportMethodImpl::import(cas_files, save_path, symlink_to) is entered
\* with the index in hand.
StartImport(pkg) == [StartTask(pkg) EXCEPT !.pc = "check", !.cas_paths = CasPaths(pkg)]

StartJob(j) == IF j.kind = "import" THEN StartImport(j.pkg) ELSE StartTask(j.pkg)

InstallIdle ==
    /\ disk = <<>>
    /\ tcache = <<>>
    /\ fetched = [i \in Integrities |-> 0]
    /\ net = [i \in Integrities |-> "ok"]
    /\ job = [t \in Tasks |-> [kind |-> "lockfile", pkg |-> PkgA]]
    /\ task = [t \in Tasks |-> StartTask(PkgA)]
    /\ run = 1
    /\ lastOk = <<>>
    /\ interrupted = {}

Terminal == {"done", "failed", "panicked", "killed"}

outside == <<pathVars, regVars, wr, httpVars>>

PkgOf(t) == job[t].pkg
KeyOf(t) == Snapshot(PkgOf(t)).integrity

\* Where a task goes once download_tarball_to_store has returned Ok
AfterDownload(t) == IF job[t].kind = "lockfile" THEN "mkdir" ELSE "cas"

MutFail(t, err) == [task EXCEPT ![t].pc = AfterDownload(t)]

Fail(t, err) == [task EXCEPT ![t].pc = "failed", ![t].err = err]

\* install_single_package_to_virtual_store: `match resolution` panics on a
\* resolution it does not take; internal_fetch and import have no such match.
MatchPanics(t) ==
    /\ job[t].kind = "lockfile"
    /\ ResolutionPanics(Snapshot(PkgOf(t)).resolution, Snapshot(PkgOf(t)).integrity)

\* The panic unwinds out of the install of the node: nothing is returned.
MatchResolutionPanic(t) ==
    /\ task[t].pc = "start"
    /\ MatchPanics(t)
    /\ task' = [task EXCEPT ![t].pc = "panicked", ![t].err = "panic"]
    /\ UNCHANGED <<disk, tcache, fetched, net, job, run, lastOk, interrupted, store, storeDirs,
                   outside>>

\* download_tarball_to_store on entry: a slot found for the key is awaited
\* (or read, when it is resolved), otherwise a pending slot is installed
\* before any I/O.
DlEnter(t) ==
    /\ task[t].pc = "start"
    /\ ~MatchPanics(t)
    /\ IF SlotFound(tcache, KeyOf(t))
       THEN /\ task' = [task EXCEPT ![t].pc = "await"]
            /\ UNCHANGED tcache
       ELSE /\ tcache' = (KeyOf(t) :> Pending) @@ tcache
            /\ task' = [task EXCEPT ![t].pc = "fetch"]
    /\ UNCHANGED <<disk, fetched, net, job, run, lastOk, interrupted, store, storeDirs, outside>>

\* The HTTP GET of the tarball
DlFetch(t) ==
    /\ task[t].pc = "fetch"
    /\ fetched' = [fetched EXCEPT ![KeyOf(t)] = @ + 1]
    /\ IF net[KeyOf(t)] = "unreachable"
       THEN /\ tcache' = [tcache EXCEPT ![KeyOf(t)] = Failed("fetch")]
            /\ task' = Fail(t, "fetch")
       ELSE /\ task' = [task EXCEPT ![t].pc = "extract"]
            /\ UNCHANGED tcache
    /\ UNCHANGED <<disk, net, job, run, lastOk, interrupted, store, storeDirs, outside>>

\* Verify the body, then extract every regular file into the CAS and
\* publish the index in the slot.
DlExtract(t) ==
    /\ task[t].pc = "extract"
    /\ IF net[KeyOf(t)] = "corrupt"
       THEN /\ tcache' = [tcache EXCEPT ![KeyOf(t)] = Failed("integrity")]
            /\ task' = Fail(t, "integrity")
            /\ UNCHANGED <<store, storeDirs>>
       ELSE /\ store' = PutAll(store, Contents(KeyOf(t)))
            /\ storeDirs' = PutDirs(storeDirs, Contents(KeyOf(t)))
            /\ tcache' = [tcache EXCEPT ![KeyOf(t)] = Ready(ExtractionIndex(KeyOf(t)))]
            /\ task' = [task EXCEPT ![t].pc = AfterDownload(t),
                                    ![t].cas_paths = ExtractionIndex(KeyOf(t))]
    /\ UNCHANGED <<disk, fetched, net, job, run, lastOk, interrupted, outside>>

\* A caller that found a slot resumes when the slot is resolved.
DlAwait(t) ==
    /\ task[t].pc = "await"
    /\ tcache[KeyOf(t)].state # "pending"
    /\ IF tcache[KeyOf(t)].state = "ready"
       THEN task' = [task EXCEPT ![t].pc = AfterDownload(t),
                                 ![t].cas_paths = tcache[KeyOf(t)].index]
       ELSE task' = Fail(t, tcache[KeyOf(t)].err)
    /\ UNCHANGED <<disk, tcache, fetched, net, job, run, lastOk, interrupted, store, storeDirs,
                   outside>>

\* create_virtdir_by_snapshot: fs::create_dir_all(&virtual_node_modules_dir)
CvMkdir(t) ==
    /\ task[t].pc = "mkdir"
    /\ disk' = DiskCreateDirAll(disk, VirtualNodeModulesDir(PkgOf(t)))
    /\ task' = [task EXCEPT ![t].pc = "check"]
    /\ UNCHANGED <<tcache, fetched, net, job, run, lastOk, interrupted, store, storeDirs, outside>>

MutSkipImport(exists) == FALSE

\* `if !save_path.exists()`: whether the import step is left out
SkipImport(exists) == exists

\* `if !save_path.exists()` of create_virtdir_by_snapshot and of
\* ImportMethodImpl::import: the import is skipped when save_path exists.
CheckSavePath(t) ==
    /\ task[t].pc = "check"
    /\ LET exists == PathExists(disk, SavePath(PkgOf(t)))
       IN  IF SkipImport(exists)
           THEN task' = [task EXCEPT
                            ![t].pc = IF job[t].kind = "lockfile" THEN "links" ELSE "islink",
                            ![t].skipped = exists]
           ELSE task' = [task EXCEPT ![t].pc = "import", ![t].skipped = exists]
    /\ UNCHANGED <<disk, tcache, fetched, net, job, run, lastOk, interrupted, store, storeDirs,
                   outside>>

TargetLink(t, f) == SavePath(PkgOf(t)) \o f

\* auto_import: `if target_link.exists() { return Ok(()) }`
AiCheck(t, f) ==
    /\ task[t].pc = "import"
    /\ task[t].files[f] = "todo"
    /\ task' = [task EXCEPT ![t].files[f] =
                   IF PathExists(disk, TargetLink(t, f)) THEN "done" ELSE "mkdir"]
    /\ UNCHANGED <<disk, tcache, fetched, net, job, run, lastOk, interrupted, store, storeDirs,
                   outside>>

\* auto_import: fs::create_dir_all(parent_dir)
AiMkdir(t, f) ==
    /\ task[t].pc = "import"
    /\ task[t].files[f] = "mkdir"
    /\ disk' = DiskCreateDirAll(disk, ParentOf(TargetLink(t, f)))
    /\ task' = [task EXCEPT ![t].files[f] = "copy"]
    /\ UNCHANGED <<tcache, fetched, net, job, run, lastOk, interrupted, store, storeDirs, outside>>

\* auto_import: reflink_or_copy, first half.  A reflink makes the complete
\* file in one step and needs the target to be absent; the fallback
\* fs::copy creates the target, or truncates the one there.
AiCopy(t, f) ==
    /\ task[t].pc = "import"
    /\ task[t].files[f] = "copy"
    /\ \/ /\ TargetLink(t, f) \notin DOMAIN disk
          /\ disk' = DiskWriteFile(disk, TargetLink(t, f), store[task[t].cas_paths[f]])
          /\ task' = [task EXCEPT ![t].files[f] = "done"]
       \/ /\ disk' = DiskCreateFile(disk, TargetLink(t, f))
          /\ task' = [task EXCEPT ![t].files[f] = "fill"]
    /\ UNCHANGED <<tcache, fetched, net, job, run, lastOk, interrupted, store, storeDirs, outside>>

\* auto_import: reflink_or_copy, second half: fs::copy writes the bytes.
AiFill(t, f) ==
    /\ task[t].pc = "import"
    /\ task[t].files[f] = "fill"
    /\ disk' = DiskWriteFile(disk, TargetLink(t, f), store[task[t].cas_paths[f]])
    /\ task' = [task EXCEPT ![t].files[f] = "done"]
    /\ UNCHANGED <<tcache, fetched, net, job, run, lastOk, interrupted, store, storeDirs, outside>>

\* What becomes of an AutoImportError: create_virtdir_by_snapshot (of a
\* lockfile job) returns it with `?`, ImportMethodImpl::import unwraps it
\* with expect and panics.
ImportFailure(t, err, report) ==
    [task EXCEPT ![t].pc = IF job[t].kind = "lockfile" THEN "failed" ELSE "panicked",
                 ![t].err = err,
                 ![t].report = report]

\* auto_import: fs::create_dir_all(parent_dir) fails:
\* AutoImportError::CreateDir { dirname, error }
AiMkdirFails(t, f) ==
    /\ task[t].pc = "import"
    /\ task[t].files[f] = "mkdir"
    /\ task' = ImportFailure(t, "CreateDir", <<ParentOf(TargetLink(t, f))>>)
    /\ UNCHANGED <<disk, tcache, fetched, net, job, run, lastOk, interrupted, store, storeDirs,
                   outside>>

\* auto_import: reflink_or_copy fails:
\* AutoImportError::CreateLink { from, to, error }
AiCopyFails(t, f) ==
    /\ task[t].pc = "import"
    /\ task[t].files[f] = "copy"
    /\ task' = ImportFailure(t, "CreateLink", <<task[t].cas_paths[f], TargetLink(t, f)>>)
    /\ UNCHANGED <<disk, tcache, fetched, net, job, run, lastOk, interrupted, store, storeDirs,
                   outside>>

\* The parallel iterator over cas_paths has finished.
ImportDone(t) ==
    /\ task[t].pc = "import"
    /\ \A f \in DOMAIN task[t].files : task[t].files[f] = "done"
    /\ task' = [task EXCEPT ![t].pc = IF job[t].kind = "lockfile" THEN "links" ELSE "islink"]
    /\ UNCHANGED <<disk, tcache, fetched, net, job, run, lastOk, interrupted, store, storeDirs,
                   outside>>

MutLinkOutcome(exists) == IF exists THEN "panic" ELSE "ok"

\* create_virtdir_by_snapshot: ErrorKind::AlreadyExists from symlink_dir is
\* success, any other error panics.
LinkOutcome(exists) == "ok"

\* create_virtdir_by_snapshot: one dependency of the parallel iterator:
\* create_dir_all(parent), then symlink_dir(&symlink_target, &symlink_path)
CvLink(t, dep) ==
    /\ task[t].pc = "links"
    /\ dep \in Snapshot(PkgOf(t)).dependencies
    /\ dep.name \notin task[t].links
    /\ LET link == SymlinkPath(PkgOf(t), dep)
           made == DiskCreateDirAll(disk, ParentOf(link))
           exists == SymlinkFails(made, link)
       IN  /\ disk' = IF exists THEN made ELSE SymlinkDir(made, SymlinkTarget(dep), link)
           /\ task' = IF LinkOutcome(exists) = "ok"
                      THEN [task EXCEPT ![t].links = @ \cup {dep.name}]
                      ELSE Fail(t, "panic")
    /\ UNCHANGED <<tcache, fetched, net, job, run, lastOk, interrupted, store, storeDirs, outside>>

\* create_virtdir_by_snapshot returns Ok(()).
CvDone(t) ==
    /\ task[t].pc = "links"
    /\ \A dep \in Snapshot(PkgOf(t)).dependencies : dep.name \in task[t].links
    /\ task' = [task EXCEPT ![t].pc = "done"]
    /\ UNCHANGED <<disk, tcache, fetched, net, job, run, lastOk, interrupted, store, storeDirs,
                   outside>>

\* ImportMethodImpl::import: `if !symlink_to.is_symlink()`
ImIsSymlink(t) ==
    /\ task[t].pc = "islink"
    /\ task' = [task EXCEPT ![t].pc =
                   IF IsSymlink(disk, ProjectLink(PkgOf(t))) THEN "done" ELSE "mklink"]
    /\ UNCHANGED <<disk, tcache, fetched, net, job, run, lastOk, interrupted, store, storeDirs,
                   outside>>

\* ImportMethodImpl::import: create_dir_all(parent_dir)?, then
\* symlink_dir(save_path, symlink_to)?: an error is returned to the caller.
ImSymlink(t) ==
    /\ task[t].pc = "mklink"
    /\ LET link == ProjectLink(PkgOf(t))
           made == DiskCreateDirAll(disk, ParentOf(link))
       IN  IF SymlinkFails(made, link)
           THEN /\ disk' = made
                /\ task' = Fail(t, "AlreadyExists")
           ELSE /\ disk' = SymlinkDir(made, SavePath(PkgOf(t)), link)
                /\ task' = [task EXCEPT ![t].pc = "done"]
    /\ UNCHANGED <<tcache, fetched, net, job, run, lastOk, interrupted, store, storeDirs, outside>>

----------------------------------------------------------------------------
(* pacquet_package_manager: create_cas_files and symlink_pkg, called by    *)
(* internal_fetch, as the Importer and the Symlink Layer are specified     *)

\* create_cas_files(import_method, &save_path, &cas_paths), one entry of the
\* index: an entry whose target exists is skipped; otherwise the missing
\* parent directories are created and the file is linked by reflink, or, as
\* the fallback, by a full byte copy.
CreateCasFiles(t, f) ==
    /\ task[t].pc = "cas"
    /\ \/ /\ task[t].files[f] = "todo"
          /\ task' = [task EXCEPT ![t].files[f] =
                         IF PathExists(disk, TargetLink(t, f)) THEN "done" ELSE "mkdir"]
          /\ UNCHANGED disk
       \/ /\ task[t].files[f] = "mkdir"
          /\ disk' = DiskCreateDirAll(disk, ParentOf(TargetLink(t, f)))
          /\ task' = [task EXCEPT ![t].files[f] = "copy"]
       \/ /\ task[t].files[f] = "copy"
          /\ TargetLink(t, f) \notin DOMAIN disk
          /\ disk' = DiskWriteFile(disk, TargetLink(t, f), store[task[t].cas_paths[f]])
          /\ task' = [task EXCEPT ![t].files[f] = "done"]
       \/ /\ task[t].files[f] = "copy"
          /\ disk' = DiskCreateFile(disk, TargetLink(t, f))
          /\ task' = [task EXCEPT ![t].files[f] = "fill"]
       \/ /\ task[t].files[f] = "fill"
          /\ disk' = DiskWriteFile(disk, TargetLink(t, f), store[task[t].cas_paths[f]])
          /\ task' = [task EXCEPT ![t].files[f] = "done"]
    /\ UNCHANGED <<tcache, fetched, net, job, run, lastOk, interrupted, store, storeDirs, outside>>

\* create_cas_files fails on an entry: the failure names the source and the
\* destination, and internal_fetch returns it as
\* PackageManagerError::CreateCasFiles.
CreateCasFilesFails(t, f) ==
    /\ task[t].pc = "cas"
    /\ task[t].files[f] \in {"mkdir", "copy"}
    /\ task' = [task EXCEPT ![t].pc = "failed", ![t].err = "CreateCasFiles",
                            ![t].report = <<task[t].cas_paths[f], TargetLink(t, f)>>]
    /\ UNCHANGED <<disk, tcache, fetched, net, job, run, lastOk, interrupted, store, storeDirs,
                   outside>>

\* create_cas_files returns Ok(()): internal_fetch goes on to symlink_pkg.
CreateCasFilesReturn(t) ==
    /\ task[t].pc = "cas"
    /\ \A f \in DOMAIN task[t].files : task[t].files[f] = "done"
    /\ task' = [task EXCEPT ![t].pc = "symlink"]
    /\ UNCHANGED <<disk, tcache, fetched, net, job, run, lastOk, interrupted, store, storeDirs,
                   outside>>

\* symlink_pkg(&save_path, &symlink_path): the parent directories are
\* created; a symbolic link at the link path is left as it is, anything else
\* there is a failure, which internal_fetch returns as
\* PackageManagerError::SymlinkPackage.
SymlinkPkg(t) ==
    /\ task[t].pc = "symlink"
    /\ LET link == ProjectLink(PkgOf(t))
           made == DiskCreateDirAll(disk, ParentOf(link))
       IN  IF IsSymlink(made, link)
           THEN /\ disk' = made
                /\ task' = [task EXCEPT ![t].pc = "done"]
           ELSE IF SymlinkFails(made, link)
           THEN /\ disk' = made
                /\ task' = [task EXCEPT ![t].pc = "failed", ![t].err = "SymlinkPackage",
                                        ![t].report = <<link>>]
           ELSE /\ disk' = SymlinkDir(made, SavePath(PkgOf(t)), link)
                /\ task' = [task EXCEPT ![t].pc = "done"]
    /\ UNCHANGED <<tcache, fetched, net, job, run, lastOk, interrupted, store, storeDirs, outside>>

----------------------------------------------------------------------------
(* Installs one after the other *)

OwnFiles(pkg) == {SavePath(pkg) \o f : f \in DOMAIN CasPaths(pkg)}

\* The own directory holds every file of the index, completely written.
OwnComplete(pkg) ==
    \A f \in DOMAIN CasPaths(pkg) :
        /\ SavePath(pkg) \o f \in DOMAIN disk
        /\ disk[SavePath(pkg) \o f] = File(Tarball(Snapshot(pkg).integrity)[f])

\* The importer has written at least one but not all files.
OwnPartial(pkg) ==
    /\ \E p \in OwnFiles(pkg) : p \in DOMAIN disk
    /\ ~OwnComplete(pkg)

AllDone == \A t \in Tasks : task[t].pc = "done"

\* The installing process is killed: every task that has not ended stops
\* where it is.  The last install of a behaviour is left to run.
Kill ==
    /\ run < MaxRuns
    /\ \E t \in Tasks : task[t].pc \notin Terminal
    /\ task' = [t \in Tasks |-> IF task[t].pc \in Terminal THEN task[t]
                                ELSE [task[t] EXCEPT !.pc = "killed"]]
    /\ interrupted' = interrupted \cup {pkg \in Pkgs : OwnPartial(pkg)}
    /\ UNCHANGED <<disk, tcache, fetched, net, job, run, lastOk, store, storeDirs, outside>>

\* The same install is run again, in a new process: same inputs, same
\* directories, an empty tarball Cache.
RunAgain ==
    /\ run < MaxRuns
    /\ \A t \in Tasks : task[t].pc \in Terminal
    /\ run' = run + 1
    /\ lastOk' = IF AllDone THEN <<[disk |-> disk, store |-> store, dirs |-> storeDirs]>> ELSE <<>>
    /\ task' = [t \in Tasks |-> StartJob(job[t])]
    /\ tcache' = <<>>
    /\ fetched' = [i \in Integrities |-> 0]
    /\ UNCHANGED <<disk, net, job, interrupted, store, storeDirs, outside>>

----------------------------------------------------------------------------
(* crates/lockfile: LockfileResolution and its serde form *)

\* Option::None
None == "<null>"

\* Strings that stand in the fields of a resolution
FieldValues == {"x", "git"}

TarballResolution(tarball, integrity) ==
    [variant |-> "Tarball", tarball |-> tarball, integrity |-> integrity]
RegistryResolution(integrity) == [variant |-> "Registry", integrity |-> integrity]
DirectoryResolution(directory) == [variant |-> "Directory", directory |-> directory]
GitResolution(repo, commit) == [variant |-> "Git", repo |-> repo, commit |-> commit]

LockfileResolution ==
    {TarballResolution(t, i) : t \in FieldValues, i \in FieldValues \cup {None}}
        \cup {RegistryResolution(i) : i \in FieldValues}
        \cup {DirectoryResolution(d) : d \in FieldValues}
        \cup {GitResolution(r, c) : r \in FieldValues, c \in FieldValues}

\* A serialized resolution is a mapping: a sequence of <<key, value>>
Keys(doc) == {doc[i][1] : i \in DOMAIN doc}

Get(doc, key) == doc[CHOOSE i \in DOMAIN doc : doc[i][1] = key][2]

MutSkipSerializingIf(integrity) == FALSE

\* #[serde(skip_serializing_if = "Option::is_none")]
SkipSerializingIf(integrity) == integrity = None

\* #[serde(tag = "type", rename_all = "kebab-case")]
KebabCase(variant) == IF variant = "Directory" THEN "directory" ELSE "git"

\* Serialize through ResolutionSerde: the untagged variants write their
\* fields, the tagged ones the tag and then their fields.
Serialize(x) ==
    CASE x.variant = "Tarball" ->
           <<<<"tarball", x.tarball>>>>
               \o (IF SkipSerializingIf(x.integrity) THEN <<>>
                   ELSE <<<<"integrity", x.integrity>>>>)
      [] x.variant = "Registry" -> <<<<"integrity", x.integrity>>>>
      [] x.variant = "Directory" ->
           <<<<"type", KebabCase(x.variant)>>, <<"directory", x.directory>>>>
      [] x.variant = "Git" ->
           <<<<"type", KebabCase(x.variant)>>, <<"repo", x.repo>>, <<"commit", x.commit>>>>

ParseError == [variant |-> "Error"]

\* A struct with deny_unknown_fields: the required fields are there and no
\* field is outside the required and the optional ones.
StructMatches(keys, required, optional) ==
    required \subseteq keys /\ keys \subseteq required \cup optional

\* Option<String>: a missing field or a null is None
GetOption(doc, key) == IF key \in Keys(doc) THEN Get(doc, key) ELSE None

\* Deserialize through ResolutionSerde: the variants of the untagged enum
\* are tried in the order they are declared, the first that matches wins;
\* the tagged one takes its variant from `type` and its fields from the rest.
Deserialize(doc) ==
    IF StructMatches(Keys(doc), {"tarball"}, {"integrity"}) /\ Get(doc, "tarball") # None
    THEN TarballResolution(Get(doc, "tarball"), GetOption(doc, "integrity"))
    ELSE IF StructMatches(Keys(doc), {"integrity"}, {}) /\ Get(doc, "integrity") # None
    THEN RegistryResolution(Get(doc, "integrity"))
    ELSE IF "type" \in Keys(doc) /\ Get(doc, "type") = "directory"
            /\ StructMatches(Keys(doc) \ {"type"}, {"directory"}, {})
            /\ Get(doc, "directory") # None
    THEN DirectoryResolution(Get(doc, "directory"))
    ELSE IF "type" \in Keys(doc) /\ Get(doc, "type") = "git"
            /\ StructMatches(Keys(doc) \ {"type"}, {"repo", "commit"}, {})
            /\ Get(doc, "repo") # None /\ Get(doc, "commit") # None
    THEN GitResolution(Get(doc, "repo"), Get(doc, "commit"))
    ELSE ParseError

\* The mappings handed to the parser: any fields, in the order of KeyOrder
KeyOrder == <<"type", "tarball", "integrity", "directory", "repo", "commit">>

DocValues == {"x", "git", "directory", None}

RECURSIVE DocFrom(_, _)
DocFrom(f, i) ==
    IF i > Len(KeyOrder) THEN <<>>
    ELSE (IF KeyOrder[i] \in DOMAIN f THEN <<<<KeyOrder[i], f[KeyOrder[i]]>>>> ELSE <<>>)
             \o DocFrom(f, i + 1)

Mappings ==
    {DocFrom(f, 1) : f \in UNION {[K -> DocValues] : K \in SUBSET {KeyOrder[i] : i \in DOMAIN KeyOrder}}}

\* serde_yaml::to_string, or serde_yaml::from_str, of the input
ResolutionFirst ==
    /\ fnCall.fn \in {"to_string", "from_str"}
    /\ fnRet = <<>>
    /\ fnRet' = <<IF fnCall.fn = "to_string" THEN Serialize(fnCall.arg)
                  ELSE Deserialize(fnCall.arg)>>
    /\ UNCHANGED <<fnCall, pathArgs, pathRes, casVars, regVars, instVars, httpVars>>

\* The value that came out goes the other way.
ResolutionBack ==
    /\ fnCall.fn \in {"to_string", "from_str"}
    /\ Len(fnRet) = 1
    /\ fnCall.fn = "from_str" => fnRet[1] # ParseError
    /\ fnRet' = Append(fnRet, IF fnCall.fn = "to_string" THEN Deserialize(fnRet[1])
                              ELSE Serialize(fnRet[1]))
    /\ UNCHANGED <<fnCall, pathArgs, pathRes, casVars, regVars, instVars, httpVars>>

----------------------------------------------------------------------------
(* crates/lockfile: PkgNameVerPeer, `{name}@{version}({peers})` *)

\* Package names, unscoped and scoped, as strings of characters
NameStrings ==
    {<<"a">>, <<"a", "b">>, <<"@", "s", "/", "a">>, <<"@", "s", "/", "a", "b">>}

VersionStrings == {<<"1">>, <<"1", ".", "2">>}

\* One parenthesised peer: `(p@1)` or `(@s/p@1)`
PeerStrings == {<<"(", "p", "@", "1", ")">>, <<"(", "@", "s", "/", "p", "@", "1", ")">>}

RECURSIVE Concat(_)
Concat(ss) == IF ss = <<>> THEN <<>> ELSE Head(ss) \o Concat(Tail(ss))

\* Version-with-peers suffixes: a version and up to MaxPeers peers
SuffixStrings == {v \o Concat(ps) : v \in VersionStrings, ps \in SeqsUpTo(PeerStrings, MaxPeers)}

\* str::find from a byte offset: the index of the first c at or after
\* position from (1-based), 0 when there is none
RECURSIVE Find(_, _, _)
Find(s, c, from) ==
    IF from > Len(s) THEN 0
    ELSE IF s[from] = c THEN from
    ELSE Find(s, c, from + 1)

RECURSIVE RFind(_, _, _)
RFind(s, c, from) ==
    IF from < 1 THEN 0
    ELSE IF s[from] = c THEN from
    ELSE RFind(s, c, from - 1)

MutSplitIndex(value) == RFind(value, "@", Len(value))

\* The `@` between name and suffix: the first one, not counting the `@`
\* that opens a scope
SplitIndex(value) ==
    IF value # <<>> /\ value[1] = "@" THEN Find(value, "@", 2) ELSE Find(value, "@", 1)

IdentityError == [name |-> <<>>, suffix |-> <<>>]

\* <PkgNameVerPeer as FromStr>::from_str
ParsePkgNameVerPeer(value) ==
    IF SplitIndex(value) = 0 THEN IdentityError
    ELSE [name |-> SubSeq(value, 1, SplitIndex(value) - 1),
          suffix |-> SubSeq(value, SplitIndex(value) + 1, Len(value))]

\* <PkgNameVerPeer as Display>::fmt
FormatPkgNameVerPeer(id) == id.name \o <<"@">> \o id.suffix

IdentityParse ==
    /\ fnCall.fn = "parse"
    /\ fnRet = <<>>
    /\ fnRet' = <<ParsePkgNameVerPeer(fnCall.arg)>>
    /\ UNCHANGED <<fnCall, pathArgs, pathRes, casVars, regVars, instVars, httpVars>>

IdentityFormat ==
    /\ fnCall.fn = "parse"
    /\ Len(fnRet) = 1
    /\ fnRet' = Append(fnRet, FormatPkgNameVerPeer(fnRet[1]))
    /\ UNCHANGED <<fnCall, pathArgs, pathRes, casVars, regVars, instVars, httpVars>>

----------------------------------------------------------------------------
(* crates/cli: the tarball URL of a lockfile node *)

\* Option::None of a string of characters
NoString == <<"<null>">>

\* PkgName: an optional scope and the bare name
PkgNames == {[scope |-> NoString, bare |-> <<"a">>], [scope |-> <<"s">>, bare |-> <<"a">>]}

\* <PkgName as Display>::fmt
FormatPkgName(name) ==
    IF name.scope = NoString THEN name.bare ELSE <<"@">> \o name.scope \o <<"/">> \o name.bare

\* PkgVerPeer: the version and the peers that follow it
PkgVerPeers == [version : VersionStrings, peer : {<<>>, <<"(", "p", "@", "1", ")">>}]

\* PkgVerPeer::version
VersionOf(ver_peer) == ver_peer.version

\* config.registry and custom_registry: without, with one and with two
\* trailing slashes
Registries ==
    {<<"h", ":", "/", "/", "r">>, <<"h", ":", "/", "/", "r", "/">>,
     <<"h", ":", "/", "/", "r", "/", "/">>}

CustomRegistries == {NoString, <<"h", ":", "/", "/", "c">>, <<"h", ":", "/", "/", "c", "/">>}

TarballStrings == {<<"f", ":", "t", ".", "t", "g", "z">>, <<"h", ":", "/", "/", "t", "/", "/", "a">>}

MutStripSuffix(s, c) == s

\* registry.strip_suffix('/').unwrap_or(registry): one `/` is taken off
StripSuffix(s, c) ==
    IF s # <<>> /\ s[Len(s)] = c THEN SubSeq(s, 1, Len(s) - 1) ELSE s

\* custom_registry.as_ref().unwrap_or(&config.registry)
UnwrapOr(option, default) == IF option = NoString THEN default ELSE option

\* install_single_package_to_virtual_store: the arms of `match resolution`
\* that give (tarball_url, integrity)
TarballUrl(resolution, custom_registry, registry, package_specifier) ==
    IF resolution.variant = "Tarball"
    THEN resolution.tarball
    ELSE StripSuffix(UnwrapOr(custom_registry, registry), "/")
             \o <<"/">> \o FormatPkgName(package_specifier.name)
             \o <<"/", "-", "/">> \o package_specifier.name.bare
             \o <<"-">> \o VersionOf(package_specifier.suffix)
             \o <<".", "t", "g", "z">>

SelectTarballUrl ==
    /\ fnCall.fn = "tarball_url"
    /\ fnRet = <<>>
    /\ fnRet' = <<TarballUrl(fnCall.resolution, fnCall.custom_registry, fnCall.registry,
                             fnCall.package_specifier)>>
    /\ UNCHANGED <<fnCall, pathArgs, pathRes, casVars, regVars, instVars, httpVars>>

----------------------------------------------------------------------------
(* crates/registry: HttpClient::get_package_by_version *)

\* get_package_by_version up to `.send()`: the request enters the
\* middleware, no retry made yet.
GetPackageByVersionCall(c) ==
    /\ rq[c].pc = "idle"
    /\ rq' = [rq EXCEPT ![c] = [IdleRequest EXCEPT !.pc = "sending"]]
    /\ UNCHANGED <<wt, pathVars, casVars, regVars, instVars>>

\* One attempt inside `.send().await`: a transient end that the policy
\* lets retry is followed by a backoff, any other end is handed back.
GetPackageByVersionAttempt(c) ==
    /\ rq[c].pc = "sending"
    /\ \E outcome \in Outcomes :
          rq' = [rq EXCEPT ![c].last = outcome,
                           ![c].pc = IF Retryable(outcome) = "Transient"
                                        /\ ShouldRetry(rq[c].retries)
                                     THEN "backoff" ELSE "sent"]
    /\ UNCHANGED <<wt, pathVars, casVars, regVars, instVars>>

\* The backoff has been slept; the request is sent again.
GetPackageByVersionBackoff(c) ==
    /\ rq[c].pc = "backoff"
    /\ rq' = [rq EXCEPT ![c].pc = "sending", ![c].retries = @ + 1]
    /\ UNCHANGED <<wt, pathVars, casVars, regVars, instVars>>

\* `.send().await?` and `.json::<PackageVersion>().await?`: a request error
\* is returned; a response is decoded whatever its status, and only the
\* body of a 200 can be a package version.
GetPackageByVersionJson(c) ==
    /\ rq[c].pc = "sent"
    /\ \/ /\ rq[c].last = "200"
          /\ \E package \in Documents :
                rq' = [rq EXCEPT ![c].pc = "done", ![c].ret = package]
       \/ rq' = [rq EXCEPT ![c].pc = "done", ![c].ret = RegError]
    /\ UNCHANGED <<wt, pathVars, casVars, regVars, instVars>>

\* The caller takes the result and may call again.
GetPackageByVersionReturn(c) ==
    /\ rq[c].pc = "done"
    /\ rq' = [rq EXCEPT ![c] = IdleRequest]
    /\ UNCHANGED <<wt, pathVars, casVars, regVars, instVars>>

----------------------------------------------------------------------------
(* crates/registry-mock: MockInstanceOptions::wait_for_registry *)

\* Values of max_retries and retry_delay the wait is called with
WaitRetries == 0 .. MaxWaitRetries

RetryDelays == {1, 2}

\* How `client.head(url).send()` ends: a response, a connect error, or
\* another error
HeadOutcomes == {"ok", "connect", "other"}

FailedToCheck == "Failed to check for the registry for max_retries times"

\* `let mut retries = max_retries`
WaitForRegistryCall(max_retries, retry_delay) ==
    /\ wt.pc = "idle"
    /\ wt' = [IdleWait EXCEPT !.pc = "check", !.max_retries = max_retries,
                              !.retry_delay = retry_delay, !.retries = max_retries]
    /\ UNCHANGED <<rq, pathVars, casVars, regVars, instVars>>

\* One evaluation of the loop condition, is_registry_ready, and of
\* checked_sub when it answers false: a response ends the wait, a connect
\* error costs one of the retries or panics when none is left, any other
\* error panics inside is_registry_ready.
WaitForRegistryCheck ==
    /\ wt.pc = "check"
    /\ \E outcome \in HeadOutcomes :
          CASE outcome = "ok" ->
                  wt' = [wt EXCEPT !.pc = "returned", !.checks = @ + 1]
            [] outcome = "other" ->
                  wt' = [wt EXCEPT !.pc = "panicked", !.checks = @ + 1, !.msg = "error"]
            [] outcome = "connect" ->
                  IF wt.retries = 0
                  THEN wt' = [wt EXCEPT !.pc = "panicked", !.checks = @ + 1,
                                        !.msg = FailedToCheck]
                  ELSE wt' = [wt EXCEPT !.pc = "sleep", !.checks = @ + 1,
                                        !.retries = @ - 1]
    /\ UNCHANGED <<rq, pathVars, casVars, regVars, instVars>>

\* sleep(retry_delay).await
WaitForRegistrySleep ==
    /\ wt.pc = "sleep"
    /\ wt' = [wt EXCEPT !.pc = "check", !.slept = @ + wt.retry_delay]
    /\ UNCHANGED <<rq, pathVars, casVars, regVars, instVars>>

----------------------------------------------------------------------------
(* Specifications *)

InitPath ==
    /\ CasIdle
    /\ RegIdle
    /\ InstallIdle
    /\ pathArgs \in [file_type : FileTypes, hex : SeqsUpTo(HexAlphabet, MaxHexLen)]
    /\ pathRes = NoResult
    /\ fnCall = NoCall
    /\ fnRet = <<>>

NextPath == ComputeContentPath

SpecPath == InitPath /\ [][NextPath]_vars

InitCas == PathIdle /\ CasIdle /\ RegIdle /\ InstallIdle

NextCas ==
    \E w \in Writers :
        \/ \E buffer \in Buffers : WsCall(w, buffer)
        \/ WsCreateDirAll(w)
        \/ WsCreate(w)
        \/ WsWrite(w)
        \/ WsReturn(w)
        \/ WsKill(w)

SpecCas == InitCas /\ [][NextCas]_vars

InitRegistry == PathIdle /\ CasIdle /\ RegIdle /\ InstallIdle

NextRegistry ==
    \E c \in RegCalls :
        \/ \E name \in PackageNames : GetPackageCall(c, name)
        \/ GetPackageAttempt(c)
        \/ GetPackageBackoff(c)
        \/ GetPackageJson(c)
        \/ GetPackageReturn(c)

SpecRegistry == InitRegistry /\ [][NextRegistry]_vars

PkgRank(pkg) ==
    CASE pkg = PkgA -> 0 [] pkg = PkgB -> 1 [] pkg = PkgD -> 2 [] pkg = PkgG -> 3 [] pkg = PkgT -> 4

JobRank(j) ==
    (CASE j.kind = "lockfile" -> 0 [] j.kind = "registry" -> 5 [] j.kind = "import" -> 10)
        + PkgRank(j.pkg)

\* The blobs of the tarballs whose index is handed to import
ImportedContents(j) ==
    UNION {Contents(Snapshot(j[t].pkg).integrity) : t \in {u \in Tasks : j[u].kind = "import"}}

\* The store at the start of the tasks: empty, but for the tarballs whose
\* index a call of import is given.
StoreBefore(j) ==
    /\ store = PutAll(<<>>, ImportedContents(j))
    /\ storeDirs = PutDirs({StoreDir}, ImportedContents(j))
    /\ wr = [w \in Writers |-> IdleWriter]


SortedJobs(J) ==
    {j \in [Tasks -> J] : \A t1, t2 \in Tasks : t1 < t2 => JobRank(j[t1]) <= JobRank(j[t2])}

\* The tasks are interchangeable: their jobs are listed in one order.
Init ==
    /\ PathIdle /\ RegIdle
    /\ disk = <<>>
    /\ tcache = <<>>
    /\ fetched = [i \in Integrities |-> 0]
    /\ net \in [Integrities -> NetStatus]
    /\ job \in SortedJobs(Jobs)
    /\ StoreBefore(job)
    /\ task = [t \in Tasks |-> StartJob(job[t])]
    /\ run = 1
    /\ lastOk = <<>>
    /\ interrupted = {}

TaskStep(t) ==
    \/ DlEnter(t)
    \/ DlFetch(t)
    \/ DlExtract(t)
    \/ DlAwait(t)
    \/ CvMkdir(t)
    \/ CheckSavePath(t)
    \/ \E f \in DOMAIN task[t].files : AiCheck(t, f)
    \/ \E f \in DOMAIN task[t].files : AiMkdir(t, f)
    \/ \E f \in DOMAIN task[t].files : AiCopy(t, f)
    \/ \E f \in DOMAIN task[t].files : AiFill(t, f)
    \/ ImportDone(t)
    \/ \E dep \in Snapshot(PkgOf(t)).dependencies : CvLink(t, dep)
    \/ CvDone(t)
    \/ ImIsSymlink(t)
    \/ ImSymlink(t)
    \/ \E f \in DOMAIN task[t].files : CreateCasFiles(t, f)
    \/ CreateCasFilesReturn(t)
    \/ SymlinkPkg(t)

Next ==
    \/ \E t \in Tasks : TaskStep(t)
    \/ Kill
    \/ RunAgain

Spec == Init /\ [][Next]_vars

\* Installs that all run to their end, one after the other, every tarball
\* arriving as published
InitRepeat ==
    /\ PathIdle /\ RegIdle
    /\ disk = <<>>
    /\ tcache = <<>>
    /\ fetched = [i \in Integrities |-> 0]
    /\ net = [i \in Integrities |-> "ok"]
    /\ job \in SortedJobs(Jobs)
    /\ StoreBefore(job)
    /\ task = [t \in Tasks |-> StartJob(job[t])]
    /\ run = 1
    /\ lastOk = <<>>
    /\ interrupted = {}

NextRepeat ==
    \/ \E t \in Tasks : TaskStep(t)
    \/ RunAgain

SpecRepeat == InitRepeat /\ [][NextRepeat]_vars

\* One install of a lockfile whose nodes have every kind of resolution
LockfileJobs == [kind : {"lockfile"}, pkg : Pkgs \cup Rejected]

InitLockfile ==
    /\ PathIdle /\ CasIdle /\ RegIdle
    /\ disk = <<>>
    /\ tcache = <<>>
    /\ fetched = [i \in Integrities |-> 0]
    /\ net \in [Integrities -> NetStatus]
    /\ job \in SortedJobs(LockfileJobs)
    /\ task = [t \in Tasks |-> StartTask(job[t].pkg)]
    /\ run = 1
    /\ lastOk = <<>>
    /\ interrupted = {}

NextLockfile ==
    \E t \in Tasks :
        \/ MatchResolutionPanic(t)
        \/ DlEnter(t)
        \/ DlFetch(t)
        \/ DlExtract(t)
        \/ DlAwait(t)
        \/ CvMkdir(t)
        \/ CheckSavePath(t)
        \/ \E f \in DOMAIN task[t].files : AiCheck(t, f)
        \/ \E f \in DOMAIN task[t].files : AiMkdir(t, f)
        \/ \E f \in DOMAIN task[t].files : AiCopy(t, f)
        \/ \E f \in DOMAIN task[t].files : AiFill(t, f)
        \/ ImportDone(t)
        \/ \E dep \in Snapshot(PkgOf(t)).dependencies : CvLink(t, dep)
        \/ CvDone(t)

SpecLockfile == InitLockfile /\ [][NextLockfile]_vars

\* One install into directories where something is already at a link path:
\* a real directory, a regular file, or a symbolic link to elsewhere.
Elsewhere == <<"elsewhere">>

Occupy(path, entry) == (path :> entry) @@ DiskCreateDirAll(<<>>, ParentOf(path))

OccupiedPaths ==
    {SymlinkPath(PkgA, dep) : dep \in Snapshot(PkgA).dependencies}
        \cup {ProjectLink(PkgA), ProjectLink(PkgB)}

OccupiedDisks == {Occupy(p, e) : p \in OccupiedPaths, e \in {Dir, File(<<1>>), Link(Elsewhere)}}

InitOccupied ==
    /\ PathIdle /\ RegIdle
    /\ disk \in OccupiedDisks
    /\ tcache = <<>>
    /\ fetched = [i \in Integrities |-> 0]
    /\ net = [i \in Integrities |-> "ok"]
    /\ job \in SortedJobs(Jobs)
    /\ StoreBefore(job)
    /\ task = [t \in Tasks |-> StartJob(job[t])]
    /\ run = 1
    /\ lastOk = <<>>
    /\ interrupted = {}

NextOccupied == \E t \in Tasks : TaskStep(t)

SpecOccupied == InitOccupied /\ [][NextOccupied]_vars

\* The calls of download_tarball_to_store of one process on their own
NextFetch ==
    \E t \in Tasks :
        \/ DlEnter(t)
        \/ DlFetch(t)
        \/ DlExtract(t)
        \/ DlAwait(t)

SpecFetch == Init /\ [][NextFetch]_vars

\* Resolutions that are serialized and parsed back, and mappings that are
\* parsed and serialized back
InitResolution ==
    /\ CasIdle /\ RegIdle /\ InstallIdle
    /\ pathArgs = [file_type |-> "NonExec", hex |-> <<>>]
    /\ pathRes = NoResult
    /\ fnCall \in [fn : {"to_string"}, arg : LockfileResolution]
                     \cup [fn : {"from_str"}, arg : Mappings]
    /\ fnRet = <<>>

NextResolution == ResolutionFirst \/ ResolutionBack

SpecResolution == InitResolution /\ [][NextResolution]_vars

\* Identity strings made of a name, `@` and a version-with-peers suffix
InitIdentity ==
    /\ CasIdle /\ RegIdle /\ InstallIdle
    /\ pathArgs = [file_type |-> "NonExec", hex |-> <<>>]
    /\ pathRes = NoResult
    /\ \E n \in NameStrings, s \in SuffixStrings :
          fnCall = [fn |-> "parse", name |-> n, suffix |-> s, arg |-> n \o <<"@">> \o s]
    /\ fnRet = <<>>

NextIdentity == IdentityParse \/ IdentityFormat

SpecIdentity == InitIdentity /\ [][NextIdentity]_vars

\* Lockfile nodes with a Tarball or a Registry resolution
InitUrl ==
    /\ CasIdle /\ RegIdle /\ InstallIdle
    /\ pathArgs = [file_type |-> "NonExec", hex |-> <<>>]
    /\ pathRes = NoResult
    /\ fnCall \in [fn : {"tarball_url"},
                   resolution : {TarballResolution(t, "x") : t \in TarballStrings}
                                    \cup {RegistryResolution("x")},
                   custom_registry : CustomRegistries,
                   registry : Registries,
                   package_specifier : [name : PkgNames, suffix : PkgVerPeers]]
    /\ fnRet = <<>>

NextUrl == SelectTarballUrl

SpecUrl == InitUrl /\ [][NextUrl]_vars

\* get_package_by_version calls through the retry middleware
InitRetry == PathIdle /\ CasIdle /\ RegIdle /\ InstallIdle

NextRetry ==
    \E c \in RegCalls :
        \/ GetPackageByVersionCall(c)
        \/ GetPackageByVersionAttempt(c)
        \/ GetPackageByVersionBackoff(c)
        \/ GetPackageByVersionJson(c)
        \/ GetPackageByVersionReturn(c)

SpecRetry == InitRetry /\ [][NextRetry]_vars

\* The runtime keeps polling a request that can make progress.
FairRetry ==
    \A c \in RegCalls :
        /\ WF_vars(GetPackageByVersionAttempt(c))
        /\ WF_vars(GetPackageByVersionBackoff(c))
        /\ WF_vars(GetPackageByVersionJson(c))

SpecRetryFair == SpecRetry /\ FairRetry

\* One wait_for_registry, for every max_retries and retry_delay
InitWait == PathIdle /\ CasIdle /\ RegIdle /\ InstallIdle

NextWait ==
    \/ \E max_retries \in WaitRetries, retry_delay \in RetryDelays :
          WaitForRegistryCall(max_retries, retry_delay)
    \/ WaitForRegistryCheck
    \/ WaitForRegistrySleep

SpecWait == InitWait /\ [][NextWait]_vars

\* The runtime keeps polling the wait while it can make progress.
SpecWaitFair ==
    SpecWait /\ WF_vars(WaitForRegistryCheck) /\ WF_vars(WaitForRegistrySleep)

\* Installs of a lockfile whose every dependency is a node of the lockfile,
\* one task for each node: {f, h} or {k, e}
GraphJobs ==
    {j \in [Tasks -> [kind : {"lockfile"}, pkg : {PkgE, PkgF, PkgH, PkgK}]] :
        {j[t].pkg : t \in Tasks} \in {{PkgF, PkgH}, {PkgK, PkgE}}}

InitGraph ==
    /\ PathIdle /\ CasIdle /\ RegIdle
    /\ disk = <<>>
    /\ tcache = <<>>
    /\ job \in GraphJobs
    /\ fetched = [i \in {Snapshot(job[t].pkg).integrity : t \in Tasks} |-> 0]
    /\ net = [i \in {Snapshot(job[t].pkg).integrity : t \in Tasks} |-> "ok"]
    /\ task = [t \in Tasks |-> StartTask(job[t].pkg)]
    /\ run = 1
    /\ lastOk = <<>>
    /\ interrupted = {}

\* The steps of create_virtdir_by_snapshot
CreateVirtdirStep(t) ==
    \/ CvMkdir(t)
    \/ CheckSavePath(t)
    \/ \E f \in DOMAIN task[t].files : AiCheck(t, f)
    \/ \E f \in DOMAIN task[t].files : AiMkdir(t, f)
    \/ \E f \in DOMAIN task[t].files : AiCopy(t, f)
    \/ \E f \in DOMAIN task[t].files : AiFill(t, f)
    \/ ImportDone(t)
    \/ \E dep \in Snapshot(PkgOf(t)).dependencies : CvLink(t, dep)
    \/ CvDone(t)

\* The steps of install_single_package_to_virtual_store; no task finds the
\* tarball slot of another, as no two nodes share a tarball.
BuilderStep(t) ==
    \/ DlEnter(t)
    \/ DlFetch(t)
    \/ DlExtract(t)
    \/ CreateVirtdirStep(t)

NextGraph == \E t \in Tasks : BuilderStep(t)

SpecGraph == InitGraph /\ [][NextGraph]_vars

\* A task whose tarball is in the store runs create_virtdir_by_snapshot
\* to its end: its thread is not starved.
SpecGraphFair == SpecGraph /\ \A t \in Tasks : WF_vars(CreateVirtdirStep(t))

\* Installs of lockfile nodes that all run to their end, one after the other
BuildJobs == [kind : {"lockfile"}, pkg : Pkgs]

InitBuild ==
    /\ PathIdle /\ CasIdle /\ RegIdle
    /\ disk = <<>>
    /\ tcache = <<>>
    /\ fetched = [i \in Integrities |-> 0]
    /\ net = [i \in Integrities |-> "ok"]
    /\ job \in SortedJobs(BuildJobs)
    /\ task = [t \in Tasks |-> StartTask(job[t].pkg)]
    /\ run = 1
    /\ lastOk = <<>>
    /\ interrupted = {}

NextBuild ==
    \/ \E t \in Tasks : BuilderStep(t) \/ DlAwait(t)
    \/ RunAgain

SpecBuild == InitBuild /\ [][NextBuild]_vars

\* Installs of lockfile nodes and of packages from the registry, with
\* tarballs that may fail to arrive
InstallJobs == [kind : {"lockfile", "registry"}, pkg : Pkgs]

InitInstall ==
    /\ PathIdle /\ CasIdle /\ RegIdle
    /\ disk = <<>>
    /\ tcache = <<>>
    /\ fetched = [i \in Integrities |-> 0]
    /\ net \in [Integrities -> NetStatus]
    /\ job \in SortedJobs(InstallJobs)
    /\ task = [t \in Tasks |-> StartTask(job[t].pkg)]
    /\ run = 1
    /\ lastOk = <<>>
    /\ interrupted = {}

\* The steps of internal_fetch after the download
InternalFetchStep(t) ==
    \/ \E f \in DOMAIN task[t].files : CreateCasFiles(t, f)
    \/ CreateCasFilesReturn(t)
    \/ SymlinkPkg(t)

NextInstall ==
    \/ \E t \in Tasks : BuilderStep(t) \/ DlAwait(t) \/ InternalFetchStep(t)
    \/ RunAgain

SpecInstall == InitInstall /\ [][NextInstall]_vars

\* Installs on a disk that may refuse a directory or a file of the import
NextIo ==
    \E t \in Tasks :
        \/ TaskStep(t)
        \/ \E f \in DOMAIN task[t].files : AiMkdirFails(t, f)
        \/ \E f \in DOMAIN task[t].files : AiCopyFails(t, f)
        \/ \E f \in DOMAIN task[t].files : CreateCasFilesFails(t, f)

SpecIo == InitOccupied /\ [][NextIo]_vars

----------------------------------------------------------------------------
(* Claims about the content-addressed store *)

ClaimSuffix(file_type) ==
    IF file_type = "NonExec" THEN <<>>
    ELSE IF file_type = "Exec" THEN <<"-", "e", "x", "e", "c">>
    ELSE <<"-", "i", "n", "d", "e", "x", ".", "j", "s", "o", "n">>

\* C1: for a hex string h of length >= 2 and a file type t, the relative CAS
\* path returned is h[0..2], "/", h[2..] and then the suffix of t: "" for
\* NonExec, "-exec" for Exec, "-index.json" for Index.
C1_CasPathDerivation ==
    (pathRes # NoResult /\ Len(pathArgs.hex) >= 2) =>
        pathRes = SubSeq(pathArgs.hex, 1, 2) \o <<"/">>
                  \o SubSeq(pathArgs.hex, 3, Len(pathArgs.hex))
                  \o ClaimSuffix(pathArgs.file_type)

C1_Witness ==
    /\ pathRes # NoResult
    /\ Len(pathArgs.hex) = 2
    /\ pathArgs.file_type = "Exec"

\* The content stored completely at its own CAS path
Stored(buffer) ==
    /\ CasFilePath(buffer) \in DOMAIN store
    /\ store[CasFilePath(buffer)] = buffer

PutSamePath ==
    \A w1, w2 \in Writers :
        (wr[w1].pc = "done" /\ wr[w2].pc = "done" /\ wr[w1].buffer = wr[w2].buffer) =>
            /\ wr[w1].ret = wr[w2].ret
            /\ wr[w1].ret \notin {NoResult, Panic}

PutOfStoredContent ==
    \A w \in Writers :
        (wr[w].pc = "idle" /\ wr'[w].pc # "idle" /\ Stored(wr'[w].buffer)) =>
            /\ store' = store
            /\ storeDirs' = storeDirs
            /\ wr'[w].pc = "done"
            /\ wr'[w].ret = CasFilePath(wr'[w].buffer)

\* C2: puts of identical content, in any interleaving, all return the same
\* path and no error, and a put of content that is already stored returns
\* at once and leaves the store as it was.
C2_PutIdempotent == []PutSamePath /\ [][PutOfStoredContent]_vars

\* Two puts of the same content that both wrote, and both returned.
C2_Witness ==
    /\ wr[1].pc = "done" /\ wr[2].pc = "done"
    /\ wr[1].buffer = wr[2].buffer
    /\ wr[1].off = Len(wr[1].buffer) /\ wr[2].off = Len(wr[2].buffer)
    /\ wr[1].buffer # <<>>
    /\ Stored(wr[1].buffer)

\* C3: a CAS path either does not exist or holds the complete content whose
\* digest names it; nobody sees an empty or partial blob at a final path.
C3_BlobsAtomic ==
    \A p \in DOMAIN store : \E buffer \in Buffers : CasFilePath(buffer) = p /\ store[p] = buffer

\* C4: once a CAS path holds its complete content, no later step rewrites,
\* truncates or deletes that file.
C4_BlobsImmutable ==
    [][\A buffer \in Buffers :
          Stored(buffer) => (CasFilePath(buffer) \in DOMAIN store'
                             /\ store'[CasFilePath(buffer)] = buffer)]_vars

----------------------------------------------------------------------------
(* Claims about the registry client *)

CachedDocumentReturned ==
    \A c \in RegCalls :
        (rc[c].pc = "idle" /\ rc'[c].pc # "idle" /\ rc'[c].name \in DOMAIN regCache) =>
            /\ rc'[c].pc = "done"
            /\ rc'[c].ret = regCache[rc'[c].name]
            /\ regGets' = regGets

\* Once a call for the name has completed successfully, one GET has been
\* sent for the name, and no other is sent.
AtMostOneGet ==
    \A n \in DOMAIN regCache : regGets[n] <= 1

\* C6: once a get_package(name) has completed successfully, every later
\* get_package(name) on the client returns the cached document and sends no
\* GET, and across the calls at most one GET per name is observed once the
\* first has completed.
C6_MetadataMemoized == []AtMostOneGet /\ [][CachedDocumentReturned]_vars

\* A GET for a cached name is the retry of a call that missed the cache
\* before the name was cached.
OnlyRetriesOnceCached ==
    \A n \in PackageNames :
        (n \in DOMAIN regCache /\ regGets'[n] # regGets[n]) =>
            \E c \in RegCalls : /\ rc[c].pc = "backoff" /\ rc'[c].pc = "sending"
                                 /\ rc[c].name = n /\ ~rc[c].hit

\* C6, the part that holds: a call that starts when the name is cached
\* returns the cached document and sends no GET; the GETs sent for a cached
\* name are retries of calls that had missed the cache.
C6_LaterCallsSendNoGet == [][OnlyRetriesOnceCached /\ CachedDocumentReturned]_vars

EntriesStable ==
    \A n \in DOMAIN regCache : n \in DOMAIN regCache' /\ regCache'[n] = regCache[n]

ReferencesAgree ==
    \A h \in regHanded : h[1] \in DOMAIN regCache /\ regCache[h[1]] = h[2]

\* C7: an entry of the metadata cache is never replaced or removed, also
\* when several calls that missed the cache insert one after the other, and
\* every reference handed out for a name denotes the same document.
C7_CacheInsertOnly == []ReferencesAgree /\ [][EntriesStable]_vars

\* Two calls of one name both missed the cache, both inserted and returned.
C7_Witness ==
    /\ rc[1].pc = "done" /\ rc[2].pc = "done"
    /\ rc[1].name = rc[2].name
    /\ ~rc[1].hit /\ ~rc[2].hit
    /\ rc[1].ret \in Documents /\ rc[2].ret \in Documents
    /\ regGets[rc[1].name] = 2

----------------------------------------------------------------------------
(* Claims about the tarball cache and the installer *)

\* The call of download_tarball_to_store of a task has returned Ok; a call
\* of import downloads nothing.
Downloaded(t) ==
    /\ job[t].kind # "import"
    /\ task[t].pc \notin {"start", "fetch", "extract", "await", "failed", "killed"}

\* C5: for every integrity key, however many calls share the Cache, the
\* fetch + verify + extract is started at most once, exactly once when a
\* call has returned, and all calls return equal extraction indices.
C5_AtMostOneFetch ==
    /\ \A i \in Integrities : fetched[i] <= 1
    /\ \A t \in Tasks : (Downloaded(t) \/ task[t].err \in {"fetch", "integrity"}) => fetched[KeyOf(t)] = 1
    /\ \A t1, t2 \in Tasks :
          (Downloaded(t1) /\ Downloaded(t2) /\ KeyOf(t1) = KeyOf(t2)) =>
              task[t1].cas_paths = task[t2].cas_paths

\* Two calls with one key, from the two install paths, have both returned.
C5_Witness ==
    /\ Downloaded(1) /\ Downloaded(2)
    /\ KeyOf(1) = KeyOf(2)
    /\ job[1].kind # job[2].kind
    /\ task[1].cas_paths = ExtractionIndex(KeyOf(1))

\* C8: an install run again on what a complete install left ends without
\* error and leaves the same files, directories and links, with the same
\* contents and targets.
C8_IdempotentInstall ==
    lastOk # <<>> =>
        /\ \A t \in Tasks : task[t].pc # "failed"
        /\ AllDone => /\ disk = lastOk[1].disk
                      /\ store = lastOk[1].store
                      /\ storeDirs = lastOk[1].dirs

\* The second of two complete installs has ended; it built an entry with
\* files and a sibling link, and made a project-level link.
C8_Witness ==
    /\ lastOk # <<>>
    /\ AllDone
    /\ job[1].kind = "lockfile" /\ job[2].kind = "registry"
    /\ \E p \in DOMAIN disk : disk[p].k = "link"
    /\ \E p \in DOMAIN disk : disk[p].k = "file"

\* C9: when an install was interrupted after the importer wrote some but
\* not all files of a package's own directory, a later install of the same
\* inputs that runs to its end leaves the own directory complete.
C9_RerunsConverge ==
    \A pkg \in interrupted :
        (AllDone /\ \E t \in Tasks : PkgOf(t) = pkg) => OwnComplete(pkg)

\* C10: the own directory of a package is absent or holds the complete file
\* set, and a builder that skipped the import because the directory exists
\* never returns while the directory is incomplete.
C10_EntryAtomicity ==
    /\ \A pkg \in Pkgs : SavePath(pkg) \notin DOMAIN disk \/ OwnComplete(pkg)
    /\ \A t \in Tasks : (task[t].pc = "done" /\ task[t].skipped) => OwnComplete(PkgOf(t))

----------------------------------------------------------------------------
(* Claims about the layout of the virtual store and its links *)

IsPrefixOf(p, q) == Len(p) <= Len(q) /\ SubSeq(q, 1, Len(p)) = p

DirectNames(pkg) == {dep.name : dep \in Snapshot(pkg).dependencies}

\* What is on disk inside <virtual_store_dir>/<folder-name>/node_modules
EntryPaths(pkg) ==
    {p \in DOMAIN disk : Len(p) > Len(VirtualStoreDir) + 2
                         /\ IsPrefixOf(VirtualStoreDir \o <<VirtualStoreName(pkg.name, pkg.suffix),
                                                             "node_modules">>, p)}

NamedAfter(pkg, p, name) ==
    p = VirtualStoreDir \o <<VirtualStoreName(pkg.name, pkg.suffix), "node_modules">>
            \o NameComponents(name)

\* the directory `@scope` that holds a scoped name
ScopeOf(pkg, p, name) ==
    /\ Len(NameComponents(name)) = 2
    /\ p = VirtualStoreDir \o <<VirtualStoreName(pkg.name, pkg.suffix), "node_modules",
                                NameComponents(name)[1]>>

\* C11: in the node_modules directory of a virtual-store entry there is
\* only the package's own directory (and what is inside it) and symbolic
\* links named after the direct dependencies of the node; the name of a
\* dependency that is not direct is never there.
C11_Isolation ==
    \A pkg \in Pkgs : \A p \in EntryPaths(pkg) :
        \/ \E q \in Prefixes(p) : NamedAfter(pkg, q, pkg.name)
        \/ \E n \in DirectNames(pkg) : NamedAfter(pkg, p, n) /\ disk[p].k = "link"
        \/ \E n \in DirectNames(pkg) \cup {pkg.name} : ScopeOf(pkg, p, n) /\ disk[p].k = "dir"

\* Both entries are built: c is linked in the entry of @s/b, which is linked
\* in the entry of a.
C11_Witness ==
    /\ \A t \in Tasks : task[t].pc = "done" /\ job[t].kind = "lockfile"
    /\ <<"vs", "a@1.0.0", "node_modules", "@s", "b">> \in DOMAIN disk
    /\ <<"vs", "@s+b@1.0.0", "node_modules", "c">> \in DOMAIN disk
    /\ <<"vs", "@s+b@1.0.0", "node_modules", "a">> \in DOMAIN disk
    /\ <<"vs", "a@1.0.0", "node_modules", "a", "index.js">> \in DOMAIN disk

\* A step of create_virtdir_by_snapshot that handles the link of dep
SiblingLinkStep(t, dep) ==
    /\ task[t].pc = "links"
    /\ dep.name \notin task[t].links
    /\ task'[t] # task[t]
    /\ dep.name \in task'[t].links \/ task'[t].pc \in {"failed", "panicked"}

\* C12: creating a link where a symbolic link already is succeeds and
\* changes nothing; where a regular file or a real directory is, it fails
\* with an error.  This holds for sibling links and for project-level links.
C12_LinkOnExistingPath ==
    [][/\ \A t \in Tasks : \A dep \in Snapshot(PkgOf(t)).dependencies :
              SiblingLinkStep(t, dep) =>
                  /\ IsSymlink(disk, SymlinkPath(PkgOf(t), dep)) =>
                         (disk' = disk /\ dep.name \in task'[t].links)
                  /\ (SymlinkPath(PkgOf(t), dep) \in DOMAIN disk
                      /\ ~IsSymlink(disk, SymlinkPath(PkgOf(t), dep))) =>
                         (disk' = disk /\ task'[t].pc = "failed")
       /\ \A t \in Tasks :
              /\ (task[t].pc = "islink" /\ task'[t] # task[t]
                  /\ IsSymlink(disk, ProjectLink(PkgOf(t)))) =>
                     (disk' = disk /\ task'[t].pc = "done")
              /\ (task[t].pc = "mklink" /\ task'[t] # task[t]
                  /\ ProjectLink(PkgOf(t)) \in DOMAIN disk
                  /\ ~IsSymlink(disk, ProjectLink(PkgOf(t)))) =>
                     (disk' = disk /\ task'[t].pc = "failed")
              /\ (task[t].pc = "symlink" /\ task'[t] # task[t]
                  /\ ProjectLink(PkgOf(t)) \in DOMAIN disk) =>
                     /\ disk' = disk
                     /\ task'[t].pc = IF IsSymlink(disk, ProjectLink(PkgOf(t)))
                                      THEN "done" ELSE "failed"]_vars

\* C13: tasks that race to create the same link all complete: no task
\* fails, or panics, because the link it was about to create is there.
C13_ConcurrentLinksTolerated ==
    \A t \in Tasks : task[t].pc \in {"failed", "panicked"} => task[t].err \in {"fetch", "integrity"}

----------------------------------------------------------------------------
(* Claims about the errors of the installer *)

NothingWrittenFor(pkg) ==
    /\ \A p \in DOMAIN disk :
          ~IsPrefixOf(VirtualStoreDir \o <<VirtualStoreName(pkg.name, pkg.suffix)>>, p)
    /\ ModulesDir \o NameComponents(pkg.name) \notin DOMAIN disk

\* C14: the install of a node whose resolution is Directory or Git returns
\* the error UnsupportedResolution to its caller, starts no fetch and
\* writes nothing.
C14_UnsupportedResolution ==
    \A t \in Tasks :
        (job[t].kind = "lockfile" /\ Snapshot(PkgOf(t)).resolution \in {"directory", "git"}) =>
            /\ task[t].pc \in {"start", "failed"}
            /\ task[t].pc = "failed" => task[t].err = "UnsupportedResolution"
            /\ task[t].cas_paths = <<>>
            /\ NothingWrittenFor(PkgOf(t))

\* C15: the install of a node whose resolution is Tarball without integrity
\* returns the error MissingIntegrity to its caller, fetches nothing and
\* writes nothing.
C15_MissingIntegrity ==
    \A t \in Tasks :
        (job[t].kind = "lockfile" /\ Snapshot(PkgOf(t)).resolution = "tarball"
         /\ Snapshot(PkgOf(t)).integrity = NoIntegrity) =>
            /\ task[t].pc \in {"start", "failed"}
            /\ task[t].pc = "failed" => task[t].err = "MissingIntegrity"
            /\ task[t].cas_paths = <<>>
            /\ NothingWrittenFor(PkgOf(t))

ErrorOf(status) == IF status = "unreachable" THEN "fetch" ELSE "integrity"

\* The tasks that install a node: they have to obtain its index
Installs(t) == job[t].kind \in {"lockfile", "registry"}

NoEntryWithoutIndex ==
    \A pkg \in Pkgs :
        (net[Snapshot(pkg).integrity] # "ok" /\ \A t \in Tasks : PkgOf(t) = pkg => Installs(t)) =>
            /\ NothingWrittenFor(pkg)
            /\ \A t \in Tasks :
                  (PkgOf(t) = pkg /\ task[t].pc \in {"done", "failed", "panicked"}) =>
                      /\ task[t].pc = "failed"
                      /\ task[t].err = ErrorOf(net[Snapshot(pkg).integrity])

IndexBeforeEntry ==
    \A t \in Tasks :
        (Installs(t) /\ task'[t] # task[t] /\ disk' # disk) =>
            /\ KeyOf(t) \in DOMAIN tcache
            /\ tcache[KeyOf(t)].state = "ready"
            /\ task[t].cas_paths = tcache[KeyOf(t)].index

\* C16: when the extraction index of a node cannot be obtained, the install
\* of the node returns that error and nothing of the node's entry and no
\* project-level link of it is created; every step that writes to the
\* virtual store or the modules directory is taken by a task that holds the
\* index.
C16_IndexBeforeEntry == []NoEntryWithoutIndex /\ [][IndexBeforeEntry]_vars

\* One node failed on a mismatching tarball, and the other one was built.
C16_Witness ==
    /\ net["sha512-A"] = "corrupt" /\ net["sha512-B"] = "ok"
    /\ PkgOf(1) = PkgA /\ PkgOf(2) = PkgB
    /\ task[1].pc = "failed" /\ task[1].err = "integrity"
    /\ task[2].pc = "done"
    /\ <<"vs", "@s+b@1.0.0", "node_modules", "a">> \in DOMAIN disk

\* create_cas_files, or the import of a call of import, has returned
ImportReturned(t) ==
    task[t].skipped \/ \A f \in DOMAIN task[t].files : task[t].files[f] = "done"

\* Task t is at the call that makes the project-level link
AtProjectLink(t) ==
    \/ job[t].kind = "registry" /\ task[t].pc = "symlink"
    \/ job[t].kind = "import" /\ task[t].pc = "mklink"

ProjectLinkInPlace ==
    \A t \in Tasks :
        (job[t].kind = "registry" /\ task[t].pc = "done") =>
            LET own_dir == VirtualStoreDir
                               \o <<VirtualStoreName(PkgOf(t).name, PkgOf(t).suffix), "node_modules">>
                               \o NameComponents(PkgOf(t).name)
                link == ModulesDir \o NameComponents(PkgOf(t).name)
            IN  /\ own_dir \in DOMAIN disk
                /\ disk[own_dir].k = "dir"
                /\ link \in DOMAIN disk
                /\ disk[link] = Link(own_dir)

ProjectLinkAfterImport ==
    \A pkg \in Pkgs :
        LET link == ModulesDir \o NameComponents(pkg.name)
        IN  (link \notin DOMAIN disk /\ link \in DOMAIN disk') =>
                \E t \in Tasks : /\ PkgOf(t) = pkg
                                 /\ AtProjectLink(t)
                                 /\ task'[t].pc = "done"
                                 /\ ImportReturned(t)

\* C19: when the install of a package from the registry has returned Ok,
\* the own directory of the package is a directory and
\* <symlink_path>/<name> is a symbolic link to exactly that directory; the
\* link is made only after the import into the own directory has returned.
C19_ProjectLink == []ProjectLinkInPlace /\ [][ProjectLinkAfterImport]_vars

\* A scoped package installed from the registry, its files written by the
\* task that made the link.
C19_Witness ==
    \E t \in Tasks :
        /\ job[t].kind = "registry" /\ PkgOf(t) = PkgB
        /\ \A u \in Tasks : PkgOf(u) = PkgB => u = t
        /\ task[t].pc = "done" /\ ImportReturned(t)
        /\ disk[<<"node_modules", "@s", "b">>] = Link(<<"vs", "@s+b@1.0.0", "node_modules", "@s", "b">>)

----------------------------------------------------------------------------
(* Claims about the lockfile layer *)

RoundTrip ==
    (fnCall.fn = "to_string" /\ Len(fnRet) = 2) => fnRet[2] = fnCall.arg

TagAndIntegrity ==
    (fnCall.fn = "to_string" /\ Len(fnRet) >= 1) =>
        /\ "type" \in Keys(fnRet[1]) <=> fnCall.arg.variant \in {"Directory", "Git"}
        /\ "type" \in Keys(fnRet[1]) =>
               Get(fnRet[1], "type") = (IF fnCall.arg.variant = "Git" THEN "git" ELSE "directory")
        /\ (fnCall.arg.variant = "Tarball" /\ fnCall.arg.integrity = None) =>
               "integrity" \notin Keys(fnRet[1])

VariantByFields ==
    (fnCall.fn = "from_str" /\ Len(fnRet) >= 1 /\ fnRet[1] # ParseError) =>
        /\ Keys(fnCall.arg) = {"integrity"} => fnRet[1].variant = "Registry"
        /\ "tarball" \in Keys(fnCall.arg) <=> fnRet[1].variant = "Tarball"
        /\ "type" \in Keys(fnCall.arg) <=> fnRet[1].variant \in {"Directory", "Git"}

\* C17: every resolution (Tarball with and without integrity, Registry,
\* Directory, Git) parses back from its serialized form to itself; the
\* `type` tag is written for Directory and Git only and an absent integrity
\* is left out; a mapping with only `integrity` parses to Registry and one
\* with `tarball` to Tarball.
C17_ResolutionRoundTrip == RoundTrip /\ TagAndIntegrity /\ VariantByFields

\* A tarball resolution without integrity has gone there and back.
C17_Witness ==
    /\ fnCall.fn = "to_string"
    /\ fnCall.arg.variant = "Tarball" /\ fnCall.arg.integrity = None
    /\ Len(fnRet) = 2
    /\ fnRet[2] = fnCall.arg

\* C18: the string name + "@" + suffix, for a name without or with a scope
\* and a suffix without or with parenthesised peers (which hold `@` and
\* `/`), parses to exactly that name and that suffix, and the parsed value
\* formats to the string that was parsed.
C18_IdentityParse ==
    /\ Len(fnRet) >= 1 => fnRet[1] = [name |-> fnCall.name, suffix |-> fnCall.suffix]
    /\ Len(fnRet) >= 2 => fnRet[2] = fnCall.arg

\* A scoped name with two peers, one of them scoped, parsed and formatted.
C18_Witness ==
    /\ Len(fnRet) = 2
    /\ fnCall.name = <<"@", "s", "/", "a">>
    /\ fnCall.suffix = <<"1", ".", "2", "(", "@", "s", "/", "p", "@", "1", ")",
                         "(", "p", "@", "1", ")">>

ClaimRegistry(call) ==
    LET r == IF call.custom_registry = NoString THEN call.registry ELSE call.custom_registry
    IN  IF r[Len(r)] = "/" THEN SubSeq(r, 1, Len(r) - 1) ELSE r

ClaimFullName(name) ==
    IF name.scope = NoString THEN name.bare ELSE <<"@">> \o name.scope \o <<"/">> \o name.bare

NoDoubleSlash(s) == \A i \in 1 .. Len(s) - 1 : ~(s[i] = "/" /\ s[i + 1] = "/")

\* C20: the URL of a Tarball resolution is its tarball string; the URL of a
\* Registry resolution is <registry>/<name>/-/<bare-name>-<version>.tgz, the
\* registry being the custom one when there is one, with its trailing slash
\* taken off, and the part of the URL after the registry has no `//`.
C20_TarballUrl ==
    fnRet # <<>> =>
        IF fnCall.resolution.variant = "Tarball"
        THEN fnRet[1] = fnCall.resolution.tarball
        ELSE /\ fnRet[1] = ClaimRegistry(fnCall) \o <<"/">>
                              \o ClaimFullName(fnCall.package_specifier.name)
                              \o <<"/", "-", "/">> \o fnCall.package_specifier.name.bare
                              \o <<"-">> \o fnCall.package_specifier.suffix.version
                              \o <<".", "t", "g", "z">>
             /\ NoDoubleSlash(SubSeq(fnRet[1], Len(ClaimRegistry(fnCall)) + 1, Len(fnRet[1])))

\* A scoped package with peers under a custom registry that ends with `/`.
C20_Witness ==
    /\ fnRet # <<>>
    /\ fnCall.resolution.variant = "Registry"
    /\ fnCall.custom_registry = <<"h", ":", "/", "/", "c", "/">>
    /\ fnCall.package_specifier.name.scope # NoString
    /\ fnCall.package_specifier.suffix.peer # <<>>
    /\ fnRet[1] = <<"h", ":", "/", "/", "c", "/", "@", "s", "/", "a", "/", "-", "/", "a", "-",
                    "1", ".", "t", "g", "z">>

----------------------------------------------------------------------------
(* Claims about the registry retry policy *)

\* The attempt of caller c that just ended is followed by a retry
Retried(c) == rq[c].pc = "sending" /\ rq'[c].pc = "backoff"

\* C21: a registry GET is retried only after a transient network error;
\* no retry follows a 4xx response.
C21_NoRetryOn4xx ==
    [][\A c \in RegCalls : Retried(c) => rq'[c].last \notin ClientErrors]_vars

\* C21, the parts that hold: never more than MaxRetries retries, and a
\* request that was not answered with a package version returns the error.
C21_AtMostThreeRetries ==
    \A c \in RegCalls : rq[c].retries <= MaxRetries

C21_ErrorReturned ==
    [][\A c \in RegCalls :
          (rq[c].pc = "sent" /\ rq'[c].pc = "done" /\ rq[c].last # "200")
              => rq'[c].ret = RegError]_vars

\* C21, the request never loops forever: every call returns.
C21_Terminates ==
    \A c \in RegCalls : (rq[c].pc = "sending") ~> (rq[c].pc = "done")

----------------------------------------------------------------------------
(* Claims about failed registry requests *)

\* Caller c's get_package returns an error with this step
GetPackageFails(c) ==
    /\ rc[c].pc \in {"sending", "body"}
    /\ rc'[c].pc = "done"
    /\ rc'[c].ret = RegError

\* Caller c calls get_package with this step
GetPackageStarts(c) == rc[c].pc = "idle" /\ rc'[c].pc # "idle"

\* C27: a get_package(name) that fails leaves the cache as it was and
\* returns the error; the cache never holds a failure, so a later
\* get_package of a name that is not cached sends a new GET.
C27_FailureNotCached ==
    [][\A c \in RegCalls :
          /\ GetPackageFails(c) => /\ regCache' = regCache
                                   /\ ~rc'[c].hit
          /\ \A n \in DOMAIN regCache' : regCache'[n] # RegError
          /\ (GetPackageStarts(c) /\ rc'[c].name \notin DOMAIN regCache)
                => /\ rc'[c].pc = "sending"
                   /\ regGets'[rc'[c].name] = regGets[rc'[c].name] + 1]_vars

\* The call that sent the first GET for a name has failed and returned, the
\* name is not cached, and the first GET of a second call is on its way.
C27_Witness ==
    /\ rc[1].pc = "sending"
    /\ rc[1].retries = 0
    /\ rc[2].pc = "idle"
    /\ regGets[rc[1].name] = 2
    /\ rc[1].name \notin DOMAIN regCache

----------------------------------------------------------------------------
(* Claims about the readiness wait of the mock registry *)

\* C28: wait_for_registry with max_retries = n at least 1 never makes more
\* than n readiness checks, and when it panics for want of retries it has
\* made exactly n failed checks.
C28_AtMostNChecks ==
    wt.max_retries >= 1 =>
        /\ wt.checks <= wt.max_retries
        /\ (wt.pc = "panicked" /\ wt.msg = FailedToCheck) => wt.checks = wt.max_retries

\* C28, what the code does: the panic comes with the check after the
\* n-th failed one, and never more than n + 1 checks are made.
C28_AtMostNPlusOneChecks ==
    /\ wt.checks <= wt.max_retries + 1
    /\ (wt.pc = "panicked" /\ wt.msg = FailedToCheck) => wt.checks = wt.max_retries + 1

\* C28, the parts that hold: the wait returns with the first check that
\* succeeds, a check that fails with another error panics at once, a
\* sleep of retry_delay separates two checks, and the wait ends.
C28_ChecksAndSleeps ==
    /\ wt.pc \in {"returned", "panicked"} => wt.slept = wt.retry_delay * (wt.checks - 1)
    /\ wt.pc = "check" => wt.slept = wt.retry_delay * wt.checks
    /\ wt.pc = "sleep" => wt.slept = wt.retry_delay * (wt.checks - 1)

C28_Terminates ==
    (wt.pc = "check") ~> (wt.pc \in {"returned", "panicked"})

----------------------------------------------------------------------------
(* Claims about the steps of the virtual-store builder *)

\* Task t builds a lockfile entry and found save_path existing
BuilderSkipped(t) == job[t].kind = "lockfile" /\ task[t].skipped

\* Nothing at or below path p differs between the two states of a step
SameBelow(p) ==
    \A q \in DOMAIN disk \cup DOMAIN disk' :
        IsPrefixOf(p, q) => /\ q \in DOMAIN disk
                            /\ q \in DOMAIN disk'
                            /\ disk'[q] = disk[q]

\* C22: a builder that finds the own directory of its identity existing
\* imports nothing (none of its steps writes at or below own_dir), and it
\* still returns only when a symlink stands at the place of every
\* dependency of the node.
C22_StepsIndependent ==
    [][\A t \in Tasks :
          (BuilderSkipped(t) /\ task'[t] # task[t] /\ run' = run) =>
              /\ SameBelow(SavePath(PkgOf(t)))
              /\ task'[t].pc # "import"
              /\ task'[t].pc = "done" =>
                    \A dep \in Snapshot(PkgOf(t)).dependencies :
                        IsSymlink(disk', SymlinkPath(PkgOf(t), dep))]_vars

\* Two builders of a@1.0.0 in the first install: one is still importing
\* and has made no link, the other found own_dir existing, skipped the
\* import and has returned after creating the link of @s/b.
C22_Witness ==
    /\ run = 1
    /\ \E t, u \in Tasks :
          /\ job[t] = [kind |-> "lockfile", pkg |-> PkgA]
          /\ job[u] = [kind |-> "lockfile", pkg |-> PkgA]
          /\ task[t].skipped /\ task[t].pc = "done"
          /\ task[u].pc = "import"
          /\ \A dep \in Snapshot(PkgA).dependencies :
                /\ IsSymlink(disk, SymlinkPath(PkgA, dep))
                /\ disk[SymlinkPath(PkgA, dep)].to = SymlinkTarget(dep)

----------------------------------------------------------------------------
(* Claims about the links of a lockfile whose dependencies are all nodes *)

GraphPkgs == {PkgE, PkgF, PkgH, PkgK}

\* C23: the sibling link of every dependency edge of a node points at the
\* own directory of the dependency's node, whether the edge is written as
\* a version-with-peers or as a dependency path, and also when the
\* dependency path names a package of another name than the edge.
C23_TargetsAreOwnDirs ==
    \A pkg \in GraphPkgs : \A dep \in Snapshot(pkg).dependencies :
        IsSymlink(disk, SymlinkPath(pkg, dep))
            => disk[SymlinkPath(pkg, dep)].to = SavePath(dep.target)

\* C23, the part that holds: the target is
\* <virtual_store_dir>/<folder of the dependency>/node_modules/<dep_name>,
\* which is the own directory when the dependency's package has that name.
C23_TargetsByEdgeName ==
    \A pkg \in GraphPkgs : \A dep \in Snapshot(pkg).dependencies :
        IsSymlink(disk, SymlinkPath(pkg, dep)) =>
            /\ disk[SymlinkPath(pkg, dep)].to =
                  VirtualStoreDir \o <<VirtualStoreName(dep.target.name, dep.target.suffix),
                                       "node_modules">> \o NameComponents(dep.name)
            /\ dep.name = dep.target.name
                  => disk[SymlinkPath(pkg, dep)].to = SavePath(dep.target)


\* The symbolic links in the virtual store
StoreLinks == {p \in DOMAIN disk : disk[p].k = "link" /\ IsPrefixOf(VirtualStoreDir, p)}

\* The link at p leads to a directory that exists
Resolves(p) == PathExists(disk, disk[p].to) /\ disk[disk[p].to].k = "dir"

\* C26: the lockfile's dependencies are all nodes of it: once the install
\* of every node has returned Ok, every sibling link in the virtual store
\* leads to an own directory that exists.
C26_NoDanglingAtCompletion ==
    AllDone => \A p \in StoreLinks : Resolves(p)

\* C26, the parts that hold: once the tarballs are in the store the install
\* of every node ends, whatever the interleaving, and in a
\* lockfile whose dependencies go by the names of their packages no link
\* dangles once all have returned.
C26_Terminates ==
    (\A t \in Tasks : task[t].pc \notin {"start", "fetch", "extract", "await"})
        ~> (\A t \in Tasks : task[t].pc \in Terminal)

C26_NoDanglingUnderOwnNames ==
    (AllDone /\ \A t \in Tasks : \A dep \in Snapshot(PkgOf(t)).dependencies :
                    dep.name = dep.target.name)
        => \A p \in StoreLinks : Resolves(p)

----------------------------------------------------------------------------
(* Claims about what an install leaves in place *)

\* The file at p is being written by the task that created it
BeingWritten(p) ==
    \E t \in Tasks : \E f \in DOMAIN task[t].files :
        /\ task[t].pc \in {"import", "cas"}
        /\ task[t].files[f] = "fill"
        /\ TargetLink(t, f) = p

\* C24: no step of an install deletes, overwrites or retargets what is in
\* the virtual store or the modules directory: every directory, link and
\* written file stays as it is.
C24_MonotonicAdd ==
    [][\A p \in DOMAIN disk :
          ~BeingWritten(p) => (p \in DOMAIN disk' /\ disk'[p] = disk[p])]_vars

\* C24, the parts that hold: directories and links stay as they are, and
\* nothing is ever removed.
C24_LinksAndDirsKept ==
    [][\A p \in DOMAIN disk :
          /\ p \in DOMAIN disk'
          /\ disk[p].k # "file" => disk'[p] = disk[p]]_vars

----------------------------------------------------------------------------
(* Claims about failures of the importer *)

\* The import of task t has met an AutoImportError
ImportFailed(t) == task[t].err \in {"CreateDir", "CreateLink"}

\* C25: when creating a parent directory or linking a file fails for an
\* entry, the import returns an error to its caller, on both import paths,
\* and the error carries the CAS path and the destination of that entry.
C25_ImportErrorsReturned ==
    \A t \in Tasks :
        ImportFailed(t) =>
            /\ task[t].pc = "failed"
            /\ \E f \in DOMAIN task[t].files :
                  task[t].report = <<task[t].cas_paths[f], TargetLink(t, f)>>

\* C25, the part that holds: create_virtdir_by_snapshot returns the error
\* of an entry, and the error of a failed link carries both paths.
C25_BuilderReturnsError ==
    \A t \in Tasks :
        (ImportFailed(t) /\ job[t].kind = "lockfile") =>
            /\ task[t].pc = "failed"
            /\ task[t].err = "CreateLink" =>
                  \E f \in DOMAIN task[t].files :
                      task[t].report = <<task[t].cas_paths[f], TargetLink(t, f)>>

====
